---- MODULE Spec2Model ----
(***************************************************************************)
(* State-machine model of the teeception indexing core:                    *)
(*   - the agent-usage projection (pkg/indexer/agent_usage_indexer_db.go), *)
(*   - the event pipeline: watcher fan-out, AgentIndexer, TokenIndexer     *)
(*     (pkg/indexer/agent_indexer.go, pkg/indexer/const.go) and the        *)
(*     balance indexer's row creation.                                     *)
(* Specifications:                                                         *)
(*   SpecUsage   calls on AgentUsageIndexerDatabaseInMemory                *)
(*   Spec        chain -> watcher -> AgentIndexer / TokenIndexer           *)
(*   SpecBalance chain -> watcher -> AgentIndexer / AgentBalanceIndexer    *)
(***************************************************************************)
EXTENDS Integers, Sequences, FiniteSets, TLC

(***************************************************************************)
(* Bounds of the model.                                                    *)
(***************************************************************************)
\* number of contract transactions explored
MaxTx == 5
\* prompt ids the agent hands out
MaxPromptId == 2
\* largest u256 of the model, scaled down so that amount * bps can overflow
MaxU256 == 30000
\* tokens every paying account starts with
StartBalance == 40
\* seconds between two blocks, and the last block timestamp
TimeStep == 900
MaxBlockTime == 2700
\* number of database calls explored in SpecUsage
MaxCalls == 3
\* last instant of the model clock
MaxTime == 2
\* capacity of the prompt cache explored; the program's capacity is
\* agentUsageIndexerPromptCacheSize = 10000 (agent_usage_indexer_db.go:46)
PromptCacheSize == 1
\* time-to-live of a cache entry in clock ticks; the program's is
\* agentUsageIndexerPromptCacheTTL = 30 min (agent_usage_indexer_db.go:47)
PromptCacheTTL == 1
\* maxPrompts handed to NewAgentUsageIndexerDatabaseInMemory
maxPrompts == 2
\* number of blocks the chain grows to
MaxBlock == 2
\* largest value of the unsigned block counter explored; the program's is 2^64 - 1
MaxUint == 4
\* window of the watcher explored; NewUIService sets IndexChunkSize: 1000 (service.go:56)
IndexChunkSize == 1
\* capacity of a subscriber channel explored; the program's is 1000
\* (agent_indexer.go:74, const.go:101)
ChanCap == 1
\* largest config.StartingBlock explored
MaxStartingBlock == 1
\* number of failed chain requests explored in SpecWatcher
MaxRpcFailures == 1
MaxTicks == 2
PageSize == 1
MaxPage == 1

(***************************************************************************)
(* Values.  An address is the [32]byte of the program, kept here as a      *)
(* fixed-length sequence of byte codes (AddrLen bytes).  The byte codes    *)
(* used are those of '-' (45) and of the digits '1' (49) and '2' (50), so  *)
(* that the formatted cache keys of different (address, prompt id) pairs   *)
(* share characters.                                                       *)
(***************************************************************************)
Agent1 == <<49, 45>>
Agent2 == <<49, 49>>
Beef   == <<50, 50>>
ZeroAddress == <<0, 0>>

Addr == {Agent1, Agent2}
\* DrainedTo of a PromptConsumed event of agent a: a itself (failed attempt) or a winner
DrainTargets(a) == {a, Beef}
PromptIds == {1, 2}
\* (TweetID, Prompt) carried by a PromptPaid event
PaidValues == {[TweetID |-> 555, Prompt |-> "hi"], [TweetID |-> 777, Prompt |-> "yo"]}

VARIABLES
    \* AgentUsageIndexerDatabaseInMemory
    usages,            \* map address -> AgentUsage
    promptCache,       \* expirable LRU, most recently added first
    now,               \* wall clock read by the cache
    \* history variables of SpecUsage
    calls,             \* number of Store* calls made
    consumedLog,       \* per address, the prompt ids of all StorePromptConsumedData calls
    paidLog,           \* per (address, prompt id), the last PromptPaid not yet consumed
    lastCall           \* the last Store* call, its inputs and what it found

VARIABLES
    \* AgentUsageIndexerDatabaseInMemory, its critical sections step by step
    usageMu,           \* db.mu: "free", "r" (read-locked) or "w" (write-locked)
    usageLast,         \* db.lastIndexedBlock
    storePc,           \* where the indexer's goroutine stands in a Store* / Set* call
    storeCall,         \* the arguments of that call
    storeLocal,        \* the *AgentUsage it works on: fresh or the one of the map
    readPc,            \* where a query handler stands in GetAgentUsage and its reads
    readOp,            \* the reader method it called
    readSnap,          \* what the handler has read through the pointer
    getLastPc          \* where a caller of GetLastIndexedBlock stands

lockVars == <<usageMu, usageLast, storePc, storeCall, storeLocal, readPc, readOp, readSnap,
              getLastPc>>

VARIABLES
    \* the AgentRegistry, one Agent it deploys, and the ERC20 they move
    contracts,         \* the storage of the contracts, the balances, the block time
    lastTx,            \* the last transaction: function, caller, arguments, outcome
    settled,           \* per prompt id, the calls that paid out its pending amount
    paidIds,           \* the ids returned by the successful pay_for_prompt calls
    txCount            \* number of transactions sent

contractVars == <<contracts, lastTx, settled, paidIds, txCount>>

\* the variables outside the indexing pipeline
usageVars == <<usages, promptCache, now, calls, consumedLog, paidLog, lastCall, lockVars,
               contractVars>>

VARIABLES
    \* the chain and the configuration
    startingBlock,     \* config.StartingBlock
    chain,             \* chain[b]: the events of block b (block 0 holds none)
    \* EventWatcher
    subs,              \* subscription table
    watcherLast,       \* lastIndexedBlock
    watcherPc,         \* "poll" | "retry" | "send"
    watcherWindow,     \* the window fetched: [Events, FromBlock, ToBlock]
    watcherPending,    \* subscriptions the window is still to be sent to
    \* AgentIndexer
    agentPc,           \* "start" | "run"
    agentCh,           \* its subscription channel
    agentInfos,        \* db: address -> AgentInfo
    agentsByCreator,   \* db: creator -> addresses in registration order
    agentLast,         \* db: lastIndexedBlock
    \* TokenIndexer
    tokenPc,
    tokenCh,           \* one channel for both subscriptions
    tokens,            \* db: token -> TokenInfo
    tokenLast,
    \* AgentBalanceIndexer
    balancePc,
    balanceCh,
    balances,          \* db: address -> AgentBalance
    balanceLast,
    \* history variables of the pipeline
    fetched,           \* every event the watcher has fetched
    agentApplied,      \* every event the AgentIndexer has run its handler on
    tokenApplied,      \* every event the TokenIndexer has run its handler on
    agentPrev,         \* the agent projection before the last batch, and that batch
    tokenPrev,         \* the token projection before the last batch, and that batch
    windowSubs,        \* the subscriptions the current window is fanned out to
    sentNow,           \* subscription -> the messages sent to it for the current window
    rpcFailures,       \* number of chain requests of the watcher that failed
    firstFrom,         \* first block of the first window fetched, -1 before it
    \* TokenIndexer.updatePricesTask
    dbMu,              \* "free" | "r-price" | "w-price": how the task holds i.dbMu
    pricePc,           \* "wait" | "snap" | "rates" | "store"
    priceTicks,        \* ticks of the price ticker so far; the time of the tick
    priceSnap,         \* tokens: the task's local token set
    priceTodo,         \* tokens the loop over the local set has still to visit
    priceRead,         \* the local token set as GetTokens returned it
    priceFailed,       \* tokens whose GetRate failed in this round
    priceStored,       \* what the last round stored
    rateStored,        \* tokens a round has stored a fetched rate for
    lastTokenEvent,    \* token -> type of the last registry event applied to it
    removedRated,      \* tokens last removed while their rate was found
    \* a caller of AgentIndexer.GetOrFetchAgentInfo
    agentsMu,          \* "free" | "r-fetch": how the caller holds i.agentsMu
    fetchPc,           \* "idle" | "rpc" | "done"
    fetchCall,         \* the arguments: [addr, block]
    fetchSeen,         \* what the projection held when the call began
    fetchRpc,          \* what the chain answered, if it was asked
    fetchResult,       \* what the call returned
    \* a caller of AgentIndexer.GetAgentsByCreator
    queryCall,         \* the arguments: [creator, start, limit], or NoQuery
    querySeen,         \* the projection the call read
    queryResult,       \* what the call did
    \* a request GET /agent/:address in progress
    getPc,             \* "idle" | "info" | "usage" | "done"
    getAddr,           \* the address of the request
    getRead,           \* what the reads made so far returned
    getResp,           \* the response written
    \* a request of a bulk handler in progress
    listPc,            \* "idle" | "loop" | "done"
    listCall,          \* [kind, page, user]
    listPage,          \* the page the indexer returned: [items, AgentCount, LastBlock]
    listIdx,           \* position of the loop over the page
    listOut,           \* agentDatas
    listLog,           \* per agent visited: its address and whether all its reads hit
    listResp,          \* the response written
    \* UIService.Run: the task group
    parentCtx,         \* "live" | "cancelled": the context Run was called with
    groupCtx,          \* "live" | "cancelled": the context of the supervised tasks
    groupErr,          \* the error the group keeps, NoError until a task returns one
    taskErr,           \* per task: Running, or what it returned
    returnLog,         \* the tasks in the order they returned, with what they returned
    runResult          \* Running, or what Run returned

chainVars   == <<startingBlock, chain>>
watcherVars == <<subs, watcherLast, watcherPc, watcherWindow, watcherPending>>
agentVars   == <<agentPc, agentCh, agentInfos, agentsByCreator, agentLast>>
tokenVars   == <<tokenPc, tokenCh, tokens, tokenLast>>
balanceVars == <<balancePc, balanceCh, balances, balanceLast>>
historyVars == <<fetched, agentApplied, tokenApplied, agentPrev, tokenPrev>>
fanoutVars  == <<windowSubs, sentNow, rpcFailures, firstFrom>>
priceVars   == <<dbMu, pricePc, priceTicks, priceSnap, priceTodo, priceRead, priceFailed,
                priceStored, rateStored, lastTokenEvent, removedRated>>
fetchVars   == <<agentsMu, fetchPc, fetchCall, fetchSeen, fetchRpc, fetchResult>>
queryVars   == <<queryCall, querySeen, queryResult>>
httpVars    == <<getPc, getAddr, getRead, getResp>>
listVars    == <<listPc, listCall, listPage, listIdx, listOut, listLog, listResp>>
runVars     == <<parentCtx, groupCtx, groupErr, taskErr, returnLog, runResult>>
pipeVars == <<chainVars, watcherVars, agentVars, tokenVars, balanceVars, historyVars,
             fanoutVars, priceVars, fetchVars, queryVars, httpVars, listVars, runVars>>
vars == <<usageVars, pipeVars>>

(***************************************************************************)
(* strconv / fmt: decimal digits of an unsigned integer, as byte codes.    *)
(***************************************************************************)
RECURSIVE FormatUint(_)
FormatUint(n) ==
    IF n < 10 THEN <<48 + n>> ELSE FormatUint(n \div 10) \o <<48 + (n % 10)>>

\* fmt.Sprintf("%s-%d", addr, promptID) with the address bytes dropped
promptCacheKey_NoAddr(addr, promptID) == <<45>> \o FormatUint(promptID)

\* fmt.Sprintf("%s-%d", addr, promptID): %s of a byte array writes its raw bytes
promptCacheKey(addr, promptID) == addr \o <<45>> \o FormatUint(promptID)

(***************************************************************************)
(* expirable.LRU[string, PromptCacheData] as the database uses it.         *)
(* An entry is [key, TweetID, Prompt, expiresAt]; index 1 is the front of  *)
(* the eviction list (most recently added).                                *)
(***************************************************************************)
EmptyCacheData == [TweetID |-> 0, Prompt |-> ""]

CacheHas(cache, key) == \E i \in 1..Len(cache) : cache[i].key = key

\* Remove that leaves the entry in the cache
CacheRemove_Keep(cache, key) == cache

CacheRemove(cache, key) == SelectSeq(cache, LAMBDA e : e.key # key)

\* Add: an existing key is updated and moved to the front; a new key is pushed
\* to the front and the oldest entry is evicted when the size is exceeded.
CacheAdd(cache, key, data, t) ==
    LET ent == [key |-> key, TweetID |-> data.TweetID, Prompt |-> data.Prompt,
                expiresAt |-> t + PromptCacheTTL]
        pushed == <<ent>> \o CacheRemove(cache, key)
    IN  IF Len(pushed) > PromptCacheSize
        THEN SubSeq(pushed, 1, Len(pushed) - 1)
        ELSE pushed

\* Peek: the value of a present, unexpired entry; recency is not updated
CachePeek(cache, key, t) ==
    IF \E i \in 1..Len(cache) : cache[i].key = key /\ ~(t > cache[i].expiresAt)
    THEN LET e == CHOOSE e \in {cache[i] : i \in 1..Len(cache)} : e.key = key
         IN  [ok |-> TRUE, data |-> [TweetID |-> e.TweetID, Prompt |-> e.Prompt]]
    ELSE [ok |-> FALSE, data |-> EmptyCacheData]

(***************************************************************************)
(* AgentUsageIndexerDatabaseInMemory                                       *)
(***************************************************************************)
NewAgentUsage == [BreakAttempts |-> 0, LatestPrompts |-> <<>>, IsDrained |-> FALSE]

getOrCreateAgentUsage(us, addr) ==
    IF addr \in DOMAIN us THEN us[addr] ELSE NewAgentUsage

\* db.usages[addr] = usage
SetUsage(us, addr, usage) ==
    [a \in DOMAIN us \cup {addr} |-> IF a = addr THEN usage ELSE us[a]]

\* the comparison inverted
Succeeded_Inverted(drainedTo, addr) == drainedTo = addr

\* succeeded: the event's DrainedTo differs from the agent's own address
Succeeded(drainedTo, addr) == drainedTo # addr

\* the recorded drain address: zero for a failed attempt
DrainAddress(drainedTo, addr) ==
    IF drainedTo = addr THEN ZeroAddress ELSE drainedTo

\* the history cut at the wrong end
AppendLatestPrompt_DropNewest(latest, entry) ==
    IF Len(latest) + 1 > maxPrompts THEN latest ELSE Append(latest, entry)

\* append, then drop the oldest entry when the history exceeds maxPrompts
AppendLatestPrompt(latest, entry) ==
    LET appended == Append(latest, entry)
    IN  IF Len(appended) > maxPrompts THEN Tail(appended) ELSE appended

\* BreakAttempts counted only when the prompt was found in the cache
ConsumedUsage_CountHitsOnly(usage, entry, hit) ==
    [BreakAttempts |-> IF hit THEN usage.BreakAttempts + 1 ELSE usage.BreakAttempts,
     IsDrained     |-> IF entry.IsSuccess THEN TRUE ELSE usage.IsDrained,
     LatestPrompts |-> AppendLatestPrompt(usage.LatestPrompts, entry)]

\* IsDrained assigned from the outcome of the attempt
ConsumedUsage_DrainAssigned(usage, entry, hit) ==
    [BreakAttempts |-> usage.BreakAttempts + 1,
     IsDrained     |-> entry.IsSuccess,
     LatestPrompts |-> AppendLatestPrompt(usage.LatestPrompts, entry)]

\* a cache miss treated as an error: nothing recorded
ConsumedUsage_MissIsError(usage, entry, hit) ==
    IF hit
    THEN [BreakAttempts |-> usage.BreakAttempts + 1,
          IsDrained     |-> IF entry.IsSuccess THEN TRUE ELSE usage.IsDrained,
          LatestPrompts |-> AppendLatestPrompt(usage.LatestPrompts, entry)]
    ELSE usage

\* the usage after one PromptConsumed: counter, drained flag, history
ConsumedUsage(usage, entry, hit) ==
    [BreakAttempts |-> usage.BreakAttempts + 1,
     IsDrained     |-> IF entry.IsSuccess THEN TRUE ELSE usage.IsDrained,
     LatestPrompts |-> AppendLatestPrompt(usage.LatestPrompts, entry)]

(***************************************************************************)
(* History bookkeeping of SpecUsage.                                       *)
(***************************************************************************)
NoPaid == [paid |-> FALSE, TweetID |-> 0, Prompt |-> "", at |-> 0, others |-> 0]
NoEntry == [PromptID |-> 0, TweetID |-> 0, Prompt |-> "", IsSuccess |-> FALSE,
            DrainedTo |-> ZeroAddress]
NoCall == [op |-> "none", addr |-> ZeroAddress, promptId |-> 0, drainedTo |-> ZeroAddress,
           hit |-> FALSE, inCache |-> FALSE, paid |-> NoPaid, live |-> FALSE,
           expired |-> FALSE, existed |-> FALSE, pre |-> NewAgentUsage, entry |-> NoEntry]

NoStore == [addr |-> ZeroAddress, promptId |-> 0, drainedTo |-> ZeroAddress, block |-> 0]
NoLocal == [fresh |-> FALSE, usage |-> NewAgentUsage, entry |-> NoEntry]
NoSnap  == [ok |-> FALSE, LatestPrompts |-> << >>, IsDrained |-> FALSE, BreakAttempts |-> 0]

\* saturating count of PromptPaid events for other keys
Bump(n) == IF n > PromptCacheSize THEN n ELSE n + 1

UsageInit ==
    /\ usages = << >>
    /\ promptCache = << >>
    /\ now = 0
    /\ calls = 0
    /\ consumedLog = [a \in Addr |-> << >>]
    /\ paidLog = [k \in Addr \X PromptIds |-> NoPaid]
    /\ lastCall = NoCall
    /\ usageMu = "free"
    /\ usageLast = 0
    /\ storePc = "idle"
    /\ storeCall = NoStore
    /\ storeLocal = NoLocal
    /\ readPc = "idle"
    /\ readOp = "none"
    /\ readSnap = NoSnap
    /\ getLastPc = "idle"

StoreAgent(addr) ==
    /\ calls < MaxCalls
    /\ usages' = SetUsage(usages, addr, getOrCreateAgentUsage(usages, addr))
    /\ calls' = calls + 1
    /\ lastCall' = [NoCall EXCEPT !.op = "agent", !.addr = addr,
                                  !.existed = addr \in DOMAIN usages]
    /\ UNCHANGED <<promptCache, now, consumedLog, paidLog, lockVars, contractVars, pipeVars>>

StorePromptPaidData(addr, promptId, data) ==
    /\ calls < MaxCalls
    /\ promptCache' = CacheAdd(promptCache, promptCacheKey(addr, promptId), data, now)
    /\ calls' = calls + 1
    /\ paidLog' = [k \in Addr \X PromptIds |->
                     IF k = <<addr, promptId>>
                     THEN [paid |-> TRUE, TweetID |-> data.TweetID, Prompt |-> data.Prompt,
                           at |-> now, others |-> 0]
                     ELSE IF paidLog[k].paid
                          THEN [paidLog[k] EXCEPT !.others = Bump(@)]
                          ELSE paidLog[k]]
    /\ lastCall' = [NoCall EXCEPT !.op = "paid", !.addr = addr, !.promptId = promptId]
    /\ UNCHANGED <<usages, now, consumedLog, lockVars, contractVars, pipeVars>>

StorePromptConsumedData(addr, promptId, drainedTo) ==
    LET usage == getOrCreateAgentUsage(usages, addr)
        key   == promptCacheKey(addr, promptId)
        found == CachePeek(promptCache, key, now)
        entry == [PromptID  |-> promptId,
                  TweetID   |-> found.data.TweetID,
                  Prompt    |-> found.data.Prompt,
                  IsSuccess |-> Succeeded(drainedTo, addr),
                  DrainedTo |-> DrainAddress(drainedTo, addr)]
    IN  /\ calls < MaxCalls
        /\ promptCache' = IF found.ok THEN CacheRemove(promptCache, key) ELSE promptCache
        /\ usages' = SetUsage(usages, addr, ConsumedUsage(usage, entry, found.ok))
        /\ calls' = calls + 1
        /\ consumedLog' = [consumedLog EXCEPT ![addr] = Append(@, promptId)]
        /\ paidLog' = [paidLog EXCEPT ![<<addr, promptId>>] = NoPaid]
        /\ lastCall' = [op |-> "consumed", addr |-> addr, promptId |-> promptId,
                        drainedTo |-> drainedTo, hit |-> found.ok,
                        inCache |-> CacheHas(promptCache, key),
                        paid |-> paidLog[<<addr, promptId>>],
                        live |-> paidLog[<<addr, promptId>>].paid
                                 /\ now < paidLog[<<addr, promptId>>].at + PromptCacheTTL,
                        expired |-> paidLog[<<addr, promptId>>].paid
                                    /\ now > paidLog[<<addr, promptId>>].at + PromptCacheTTL,
                        existed |-> addr \in DOMAIN usages,
                        pre |-> usage, entry |-> entry]
        /\ UNCHANGED <<now, lockVars, contractVars, pipeVars>>

\* the clock advances
Tick ==
    /\ now < MaxTime
    /\ now' = now + 1
    /\ UNCHANGED <<usages, promptCache, calls, consumedLog, paidLog, lastCall, lockVars, contractVars, pipeVars>>

\* the cache's background goroutine removes the entries of an expired bucket
DeleteExpired ==
    /\ \E i \in 1..Len(promptCache) :
          /\ promptCache[i].expiresAt <= now
          /\ promptCache' = SelectSeq(promptCache,
                               LAMBDA e : e.expiresAt # promptCache[i].expiresAt)
    /\ UNCHANGED <<usages, now, calls, consumedLog, paidLog, lastCall, lockVars, contractVars, pipeVars>>

UsageNext ==
    \/ \E a \in Addr : StoreAgent(a)
    \/ \E a \in Addr, p \in PromptIds, d \in PaidValues : StorePromptPaidData(a, p, d)
    \/ \E a \in Addr, p \in PromptIds : \E t \in DrainTargets(a) :
          StorePromptConsumedData(a, p, t)
    \/ Tick
    \/ DeleteExpired

(***************************************************************************)
(* The chain.  Addresses of the pipeline are byte sequences like the       *)
(* agents'.  RogueAgent is a tracked agent contract: an expected source    *)
(* of events for the watcher, but not the registry.                        *)
(***************************************************************************)
Registry   == <<82, 82>>
RogueAgent == <<88, 88>>
Creator1   == <<67, 49>>
Token1     == <<84, 49>>
User1      == <<85, 49>>

NameOf(a) == IF a = Agent1 THEN "alice" ELSE "bob"

AgentRegisteredEvent(from, a) ==
    [Type |-> "AgentRegistered", FromAddress |-> from, Agent |-> a, Creator |-> Creator1,
     Name |-> NameOf(a), SystemPrompt |-> "sp", PromptPrice |-> 100,
     TokenAddress |-> Token1, EndTime |-> 2000]
TokenAddedEvent(from, t) ==
    [Type |-> "TokenAdded", FromAddress |-> from, Token |-> t,
     MinPromptPrice |-> 1, MinInitialBalance |-> 10]
TokenRemovedEvent(from, t) ==
    [Type |-> "TokenRemoved", FromAddress |-> from, Token |-> t]
TransferEvent(token, from, to) ==
    [Type |-> "Transfer", FromAddress |-> token, From |-> from, To |-> to]
PromptConsumedEvent(from, promptId, drainedTo) ==
    [Type |-> "PromptConsumed", FromAddress |-> from, PromptID |-> promptId,
     DrainedTo |-> drainedTo]

Emitters == {Registry, RogueAgent}
\* events of the registry kinds, from the registry or from another tracked contract
RegistryKindEvents ==
    {AgentRegisteredEvent(f, a) : f \in Emitters, a \in Addr}
        \cup {TokenAddedEvent(f, Token1) : f \in Emitters}
        \cup {TokenRemovedEvent(f, Token1) : f \in Emitters}
\* the registry's add_supported_token and remove_supported_token
TokenKindEvents ==
    {TokenAddedEvent(Registry, Token1), TokenRemovedEvent(Registry, Token1)}
\* what the price feed answers
Rates == {2, 3}
\* the registry's register_agent
AgentKindEvents == {AgentRegisteredEvent(Registry, a) : a \in Addr}
\* one registration and one token transfer, enough to feed every subscription
WatcherKindEvents ==
    {AgentRegisteredEvent(Registry, Agent1), TransferEvent(Token1, User1, Agent1)}
\* the registration of one agent
OneAgentEvents == {AgentRegisteredEvent(Registry, Agent1)}
\* registrations and token transfers to agents
BalanceKindEvents ==
    {AgentRegisteredEvent(Registry, a) : a \in Addr}
        \cup {TransferEvent(Token1, User1, a) : a \in Addr}

RECURSIVE Flatten(_)
Flatten(blocks) ==
    IF blocks = << >> THEN << >> ELSE Head(blocks) \o Flatten(Tail(blocks))

SeqToSet(seq) == {seq[i] : i \in 1..Len(seq)}

\* Events(filter{fromBlock, toBlock}): the events of the blocks of the range
\* that the chain has, in block order
EventsInRange(ch, from, to) ==
    IF to < from THEN << >>
    ELSE Flatten([i \in 1..(to - from + 1) |->
                    IF (from + i - 1) \in DOMAIN ch THEN ch[from + i - 1] ELSE << >>])

\* AgentRegistry.is_agent_registered at the "latest" block
IsAgentRegistered(ch, a) ==
    \E e \in SeqToSet(Flatten(ch)) :
        e.Type = "AgentRegistered" /\ e.FromAddress = Registry /\ e.Agent = a

\* register_agent deploys a fresh contract: the registry announces an address once
Emittable(ch, e) ==
    (e.Type = "AgentRegistered" /\ e.FromAddress = Registry) => ~IsAgentRegistered(ch, e.Agent)

\* a block is mined with no event or one event of the universe
MineBlock(universe) ==
    /\ Len(chain) < MaxBlock
    /\ \E evs \in {<< >>} \cup {<<e>> : e \in {x \in universe : Emittable(chain, x)}} :
          chain' = Append(chain,
                      [i \in 1..Len(evs) |->
                          [BlockNumber |-> Len(chain) + 1] @@ evs[i]])
    /\ UNCHANGED <<startingBlock, watcherVars, agentVars, tokenVars, balanceVars,
                   historyVars, usageVars, runVars, listVars, httpVars, queryVars, fetchVars, priceVars, fanoutVars>>

\* a block of a registry that may announce an address it has announced before
MineBlockUnchecked(universe) ==
    /\ Len(chain) < MaxBlock
    /\ \E evs \in {<< >>} \cup {<<e>> : e \in universe} :
          chain' = Append(chain,
                      [i \in 1..Len(evs) |->
                          [BlockNumber |-> Len(chain) + 1] @@ evs[i]])
    /\ UNCHANGED <<startingBlock, watcherVars, agentVars, tokenVars, balanceVars,
                   historyVars, usageVars, runVars, listVars, httpVars, queryVars, fetchVars, priceVars, fanoutVars>>

\* a block is mined with two events of the universe, in either order
MineBlockPair(universe) ==
    /\ Len(chain) < MaxBlock
    /\ \E e1, e2 \in {x \in universe : Emittable(chain, x)} :
          /\ e1 # e2
          /\ chain' = Append(chain, <<[BlockNumber |-> Len(chain) + 1] @@ e1,
                                      [BlockNumber |-> Len(chain) + 1] @@ e2>>)
    /\ UNCHANGED <<startingBlock, watcherVars, agentVars, tokenVars, balanceVars,
                   historyVars, usageVars, runVars, listVars, httpVars, queryVars, fetchVars,
                   priceVars, fanoutVars>>

(***************************************************************************)
(* NewUIService                                                            *)
(***************************************************************************)
\* lastIndexedBlock := config.StartingBlock - 1, in unsigned arithmetic
InitialLastIndexedBlock(s) == (s + MaxUint) % (MaxUint + 1)

(***************************************************************************)
(* EventWatcher: subscription table, polling loop, fan-out.                *)
(***************************************************************************)
SubKind(s) ==
    CASE s = "agent"            -> "AgentRegistered"
      [] s = "tokenAdded"       -> "TokenAdded"
      [] s = "tokenRemoved"     -> "TokenRemoved"
      [] s = "balanceAgent"     -> "AgentRegistered"
      [] s = "balanceTransfer"  -> "Transfer"

SubChannel(s) ==
    CASE s = "agent"            -> "agentCh"
      [] s = "tokenAdded"       -> "tokenCh"
      [] s = "tokenRemoved"     -> "tokenCh"
      [] s = "balanceAgent"     -> "balanceCh"
      [] s = "balanceTransfer"  -> "balanceCh"

EventsOfKind(evs, kind) == SelectSeq(evs, LAMBDA e : e.Type = kind)

MinOf(a, b) == IF a < b THEN a ELSE b

WindowFrom_Same(last) == last

\* step 3: the window that follows the watermark
WindowFrom(last) == (last + 1) % (MaxUint + 1)

WindowTo(from, head) == MinOf(from + IndexChunkSize - 1, head)

\* step 2: nothing to do while the watermark has reached the head
Idle(last, head) == last >= head

\* the window to request: the one that failed, or the one after the watermark
Planned ==
    IF watcherPc = "retry"
    THEN [FromBlock |-> watcherWindow.FromBlock, ToBlock |-> watcherWindow.ToBlock]
    ELSE [FromBlock |-> WindowFrom(watcherLast),
          ToBlock   |-> WindowTo(WindowFrom(watcherLast), Len(chain))]

CanRequest ==
    \/ watcherPc = "poll" /\ ~Idle(watcherLast, Len(chain))
    \/ watcherPc = "retry"

\* steps 1-4 of the polling loop: a window past the watermark is fetched
WatcherFetch ==
    LET w   == Planned
        evs == EventsInRange(chain, w.FromBlock, w.ToBlock)
    IN  /\ CanRequest
        /\ watcherWindow' = [Events |-> evs, FromBlock |-> w.FromBlock, ToBlock |-> w.ToBlock]
        /\ watcherPending' = subs
        /\ watcherPc' = "send"
        /\ fetched' = fetched \cup SeqToSet(evs)
        /\ windowSubs' = subs
        /\ sentNow' = << >>
        /\ firstFrom' = IF firstFrom = -1 THEN w.FromBlock ELSE firstFrom
        /\ UNCHANGED <<chainVars, subs, watcherLast, agentVars, tokenVars, balanceVars,
                       agentApplied, tokenApplied, agentPrev, tokenPrev, usageVars, runVars, listVars, httpVars, queryVars, fetchVars, priceVars,
                       rpcFailures>>

WatcherFetchFail_Advance ==
    /\ CanRequest
    /\ rpcFailures < MaxRpcFailures
    /\ rpcFailures' = rpcFailures + 1
    /\ watcherLast' = Planned.ToBlock
    /\ watcherPc' = "poll"
    /\ UNCHANGED <<chainVars, subs, watcherWindow, watcherPending, agentVars, tokenVars,
                   balanceVars, historyVars, usageVars, runVars, listVars, httpVars, queryVars, fetchVars, priceVars, windowSubs, sentNow, firstFrom>>

\* failure model: the request of the window fails; the watermark stays and
\* the same window is requested again
WatcherFetchFail ==
    /\ CanRequest
    /\ rpcFailures < MaxRpcFailures
    /\ rpcFailures' = rpcFailures + 1
    /\ watcherWindow' = [Events |-> << >>, FromBlock |-> Planned.FromBlock,
                         ToBlock |-> Planned.ToBlock]
    /\ watcherPc' = "retry"
    /\ UNCHANGED <<chainVars, subs, watcherLast, watcherPending, agentVars, tokenVars,
                   balanceVars, historyVars, usageVars, runVars, listVars, httpVars, queryVars, fetchVars, priceVars, windowSubs, sentNow, firstFrom>>

\* step 5: the window's events of one kind are sent to one subscriber; the
\* send blocks while the channel is full
WatcherSend(s) ==
    LET msg == [Events    |-> EventsOfKind(watcherWindow.Events, SubKind(s)),
                FromBlock |-> watcherWindow.FromBlock,
                ToBlock   |-> watcherWindow.ToBlock]
    IN  /\ watcherPc = "send"
        /\ s \in watcherPending
        /\ watcherPending' = watcherPending \ {s}
        /\ CASE SubChannel(s) = "agentCh" ->
                   /\ Len(agentCh) < ChanCap
                   /\ agentCh' = Append(agentCh, msg)
                   /\ UNCHANGED <<tokenCh, balanceCh>>
             [] SubChannel(s) = "tokenCh" ->
                   /\ Len(tokenCh) < ChanCap
                   /\ tokenCh' = Append(tokenCh, msg)
                   /\ UNCHANGED <<agentCh, balanceCh>>
             [] SubChannel(s) = "balanceCh" ->
                   /\ Len(balanceCh) < ChanCap
                   /\ balanceCh' = Append(balanceCh, msg)
                   /\ UNCHANGED <<agentCh, tokenCh>>
        /\ sentNow' = [x \in DOMAIN sentNow \cup {s} |->
                          IF x = s
                          THEN (IF s \in DOMAIN sentNow THEN sentNow[s] ELSE << >>) \o <<msg>>
                          ELSE sentNow[x]]
        /\ UNCHANGED <<chainVars, subs, watcherLast, watcherPc, watcherWindow,
                       agentPc, agentInfos, agentsByCreator, agentLast,
                       tokenPc, tokens, tokenLast,
                       balancePc, balances, balanceLast, historyVars, usageVars, runVars, listVars, httpVars, queryVars, fetchVars, priceVars,
                       windowSubs, rpcFailures, firstFrom>>

AllSent_Always(pending) == TRUE

\* the fan-out of the window is over
AllSent(pending) == pending = {}

\* step 6: all sends done, the watermark moves to the window's end
WatcherCommit ==
    /\ watcherPc = "send"
    /\ AllSent(watcherPending)
    /\ watcherLast' = watcherWindow.ToBlock
    /\ watcherPc' = "poll"
    /\ UNCHANGED <<chainVars, subs, watcherWindow, watcherPending, agentVars, tokenVars,
                   balanceVars, historyVars, usageVars, runVars, listVars, httpVars, queryVars, fetchVars, priceVars, fanoutVars>>

(***************************************************************************)
(* AgentIndexerDatabase                                                    *)
(***************************************************************************)
\* SetAgentInfo: the info is stored under the address and the address is
\* appended to its creator's list
SetAgentInfo(db, addr, info) ==
    [infos |-> [a \in DOMAIN db.infos \cup {addr} |->
                   IF a = addr THEN info ELSE db.infos[a]],
     byCreator |-> [c \in DOMAIN db.byCreator \cup {info.Creator} |->
                   IF c = info.Creator
                   THEN (IF c \in DOMAIN db.byCreator THEN db.byCreator[c] ELSE << >>)
                            \o <<addr>>
                   ELSE db.byCreator[c]]]

(***************************************************************************)
(* AgentIndexer                                                            *)
(***************************************************************************)
AgentInfoOf(ev) ==
    [Address |-> ev.Agent, Creator |-> ev.Creator, Name |-> ev.Name,
     SystemPrompt |-> ev.SystemPrompt, PromptPrice |-> ev.PromptPrice,
     TokenAddress |-> ev.TokenAddress, EndTime |-> ev.EndTime]

\* the handler without the check of the emitter
onAgentRegistered_NoEmitterCheck(db, ev) == SetAgentInfo(db, ev.Agent, AgentInfoOf(ev))

\* onAgentRegistered: an event not emitted by the registry is dropped
onAgentRegistered(db, ev) ==
    IF ev.FromAddress # Registry
    THEN db
    ELSE SetAgentInfo(db, ev.Agent, AgentInfoOf(ev))

RECURSIVE ApplyAgentEvents(_, _)
\* for _, ev := range data.Events { i.onAgentRegistered(ev) }
ApplyAgentEvents(db, evs) ==
    IF evs = << >> THEN db
    ELSE ApplyAgentEvents(onAgentRegistered(db, Head(evs)), Tail(evs))

\* i.db.SetLastIndexedBlock(data.ToBlock)
AgentWatermark(data) == data.ToBlock

\* run: the channel is made and subscribed to AgentRegistered
AgentIndexerStart ==
    /\ agentPc = "start"
    /\ agentPc' = "run"
    /\ subs' = subs \cup {"agent"}
    /\ UNCHANGED <<chainVars, watcherLast, watcherPc, watcherWindow, watcherPending,
                   agentCh, agentInfos, agentsByCreator, agentLast, tokenVars,
                   balanceVars, historyVars, usageVars, runVars, listVars, httpVars, queryVars, fetchVars, priceVars, fanoutVars>>

\* run: case data := <-ch, the batch applied under i.agentsMu.Lock()
AgentIndexerApply ==
    /\ agentPc = "run"
    /\ agentCh # << >>
    /\ agentsMu = "free"
    /\ LET data == Head(agentCh)
           db   == ApplyAgentEvents([infos |-> agentInfos, byCreator |-> agentsByCreator],
                                    data.Events)
       IN  /\ agentInfos' = db.infos
           /\ agentsByCreator' = db.byCreator
           /\ agentLast' = AgentWatermark(data)
           /\ agentApplied' = agentApplied \cup SeqToSet(data.Events)
           /\ agentPrev' = [infos |-> agentInfos, byCreator |-> agentsByCreator,
                            batch |-> data.Events]
    /\ agentCh' = Tail(agentCh)
    /\ UNCHANGED <<chainVars, watcherVars, agentPc, tokenVars, balanceVars,
                   fetched, tokenApplied, tokenPrev, usageVars, runVars, listVars, httpVars, queryVars, fetchVars, priceVars, fanoutVars>>

\* GetAgentInfo
GetAgentInfo(infos, addr) ==
    IF addr \in DOMAIN infos
    THEN [ok |-> TRUE, info |-> infos[addr]]
    ELSE [ok |-> FALSE]

\* the answer of is_agent_registered not looked at
fetchAgentInfo_IgnoreRegistered(addr, rpc) ==
    IF ~rpc.ok THEN [err |-> TRUE]
    ELSE [err |-> FALSE,
          info |-> [Address |-> addr, Creator |-> ZeroAddress, Name |-> rpc.name,
                    SystemPrompt |-> rpc.systemPrompt, PromptPrice |-> 0,
                    TokenAddress |-> ZeroAddress, EndTime |-> 0]]

\* fetchAgentInfo: rpc holds what the three calls at "latest" return
fetchAgentInfo(addr, rpc) ==
    IF ~rpc.ok THEN [err |-> TRUE]
    ELSE IF ~rpc.registered THEN [err |-> TRUE]
    ELSE [err |-> FALSE,
          info |-> [Address |-> addr, Creator |-> ZeroAddress, Name |-> rpc.name,
                    SystemPrompt |-> rpc.systemPrompt, PromptPrice |-> 0,
                    TokenAddress |-> ZeroAddress, EndTime |-> 0]]

\* GetOrFetchAgentInfo: the cached info, else an error when the indexer is
\* past the block, else what the chain says; a fetched info is returned and
\* not stored
GetOrFetchAgentInfo(infos, last, addr, block, rpc) ==
    IF addr \in DOMAIN infos
    THEN [err |-> FALSE, info |-> infos[addr]]
    ELSE IF last >= block THEN [err |-> TRUE]
    ELSE fetchAgentInfo(addr, rpc)

\* what the chain answers for an address at "latest"; failing: the addresses
\* whose calls fail
RpcAnswers(failing) ==
    [a \in Addr \cup {User1} |->
        [ok |-> a \notin failing, registered |-> IsAgentRegistered(chain, a),
         name |-> NameOf(a), systemPrompt |-> "sp"]]

NoFetchCall == [addr |-> ZeroAddress, block |-> 0]
NoSeen == [cached |-> FALSE, last |-> 0]
NoRpc  == [asked |-> FALSE]

\* GetOrFetchAgentInfo up to the first chain call: i.agentsMu.RLock() with
\* the RUnlock deferred to the return
FetchBegin(addr, block) ==
    /\ fetchPc \in {"idle", "done"}
    /\ fetchCall' = [addr |-> addr, block |-> block]
    /\ fetchSeen' = IF addr \in DOMAIN agentInfos
                    THEN [cached |-> TRUE, last |-> agentLast, info |-> agentInfos[addr]]
                    ELSE [cached |-> FALSE, last |-> agentLast]
    /\ fetchRpc' = NoRpc
    /\ LET r == GetAgentInfo(agentInfos, addr)
       IN  IF r.ok
           THEN /\ fetchResult' = [err |-> FALSE, info |-> r.info]
                /\ fetchPc' = "done"
                /\ agentsMu' = "free"
           ELSE IF agentLast >= block
           THEN /\ fetchResult' = [err |-> TRUE]
                /\ fetchPc' = "done"
                /\ agentsMu' = "free"
           ELSE /\ fetchPc' = "rpc"
                /\ agentsMu' = "r-fetch"
                /\ UNCHANGED fetchResult
    /\ UNCHANGED <<chainVars, watcherVars, agentVars, tokenVars, balanceVars, historyVars,
                   usageVars, runVars, listVars, httpVars, queryVars, fanoutVars, priceVars>>

\* the calls of fetchAgentInfo answered at "latest"; the deferred RUnlock runs
FetchReturn ==
    /\ fetchPc = "rpc"
    /\ \E failing \in SUBSET {fetchCall.addr} :
          LET rpc == RpcAnswers(failing)[fetchCall.addr]
          IN  /\ fetchRpc' = [asked |-> TRUE, ok |-> rpc.ok, registered |-> rpc.registered,
                              name |-> rpc.name, systemPrompt |-> rpc.systemPrompt]
              /\ fetchResult' = fetchAgentInfo(fetchCall.addr, rpc)
    /\ fetchPc' = "done"
    /\ agentsMu' = "free"
    /\ UNCHANGED <<chainVars, watcherVars, agentVars, tokenVars, balanceVars, historyVars,
                   usageVars, runVars, listVars, httpVars, queryVars, fanoutVars, priceVars, fetchCall, fetchSeen>>

\* db.GetAddressesByCreator(creator)
GetAddressesByCreator(byCreator, creator) ==
    IF creator \in DOMAIN byCreator THEN byCreator[creator] ELSE << >>

NoQuery  == [creator |-> ZeroAddress, start |-> 0, limit |-> 0, made |-> FALSE]
NotFound == [panic |-> FALSE, found |-> FALSE]

\* the zero AgentInfo
ZeroAgentInfo ==
    [Address |-> ZeroAddress, Creator |-> ZeroAddress, Name |-> "", SystemPrompt |-> "",
     PromptPrice |-> 0, TokenAddress |-> ZeroAddress, EndTime |-> 0]

\* GetAgentsByCreator: start and limit are uint64, start + limit wraps; a
\* wrapped end below start makes make([]AgentInfo, end-start) panic
GetAgentsByCreator(byCreator, infos, last, creator, start, limit) ==
    LET agents == GetAddressesByCreator(byCreator, creator)
    IN  IF Len(agents) <= start THEN NotFound
        ELSE LET sum == (start + limit) % (MaxUint + 1)
                 end == IF sum > Len(agents) THEN Len(agents) ELSE sum
             IN  IF end < start THEN [panic |-> TRUE, found |-> FALSE]
                 ELSE [panic |-> FALSE, found |-> TRUE,
                       Agents |-> [idx \in 1..(end - start) |->
                                     LET r == GetAgentInfo(infos, agents[start + idx])
                                     IN  IF r.ok THEN r.info ELSE ZeroAgentInfo],
                       AgentCount |-> Len(agents),
                       LastBlock |-> last]

\* a call of GetAgentsByCreator, under i.agentsMu.RLock()
AgentsByCreatorCall(creator, start, limit) ==
    /\ queryCall' = [creator |-> creator, start |-> start, limit |-> limit, made |-> TRUE]
    /\ querySeen' = [agents |-> IF creator \in DOMAIN agentsByCreator
                                THEN agentsByCreator[creator] ELSE << >>,
                     infos |-> agentInfos, last |-> agentLast]
    /\ queryResult' = GetAgentsByCreator(agentsByCreator, agentInfos, agentLast,
                                         creator, start, limit)
    /\ UNCHANGED <<chainVars, watcherVars, agentVars, tokenVars, balanceVars, historyVars,
                   usageVars, runVars, listVars, httpVars, fanoutVars, priceVars, fetchVars>>

(***************************************************************************)
(* TokenIndexerDatabase                                                    *)
(***************************************************************************)
SetTokenInfo(tk, token, info) ==
    [t \in DOMAIN tk \cup {token} |-> IF t = token THEN info ELSE tk[t]]

\* SetTokenInfo(token, nil): the entry becomes a sentinel with
\* MinPromptPrice = 0 that keeps the last known rate
SetTokenInfoNil(tk, token) ==
    SetTokenInfo(tk, token,
        [MinPromptPrice |-> 0, MinInitialBalance |-> 0,
         Rate |-> IF token \in DOMAIN tk THEN tk[token].Rate ELSE 0,
         RateTime |-> IF token \in DOMAIN tk THEN tk[token].RateTime ELSE 0])

(***************************************************************************)
(* TokenIndexer                                                            *)
(***************************************************************************)
\* onTokenAdded: a fresh TokenInfo, no rate yet
onTokenAdded(tk, ev) ==
    IF ev.FromAddress # Registry
    THEN tk
    ELSE SetTokenInfo(tk, ev.Token,
            [MinPromptPrice |-> ev.MinPromptPrice,
             MinInitialBalance |-> ev.MinInitialBalance, Rate |-> 0, RateTime |-> 0])

onTokenRemoved(tk, ev) ==
    IF ev.FromAddress # Registry
    THEN tk
    ELSE SetTokenInfoNil(tk, ev.Token)

RECURSIVE ApplyTokenEvents(_, _)
\* for _, ev := range data.Events { switch ev.Type { ... } }
ApplyTokenEvents(tk, evs) ==
    IF evs = << >> THEN tk
    ELSE LET ev == Head(evs)
             next == CASE ev.Type = "TokenAdded"   -> onTokenAdded(tk, ev)
                       [] ev.Type = "TokenRemoved" -> onTokenRemoved(tk, ev)
                       [] OTHER -> tk
         IN  ApplyTokenEvents(next, Tail(evs))

\* the watermark taken from the last event of the batch
TokenWatermark_LastEvent(data) ==
    IF data.Events = << >> THEN 0 ELSE data.Events[Len(data.Events)].BlockNumber

\* i.db.SetLastIndexedBlock(data.ToBlock)
TokenWatermark(data) == data.ToBlock

\* run: one channel subscribed to TokenAdded and to TokenRemoved
TokenIndexerStart ==
    /\ tokenPc = "start"
    /\ tokenPc' = "run"
    /\ subs' = subs \cup {"tokenAdded", "tokenRemoved"}
    /\ UNCHANGED <<chainVars, watcherLast, watcherPc, watcherWindow, watcherPending,
                   agentVars, tokenCh, tokens, tokenLast, balanceVars, historyVars,
                   usageVars, runVars, listVars, httpVars, queryVars, fetchVars, priceVars, fanoutVars>>

RECURSIVE LastEventAfter(_, _)
\* the type of the last registry event the handlers have run on, per token
LastEventAfter(le, evs) ==
    IF evs = << >> THEN le
    ELSE LET ev == Head(evs)
             next == IF ev.FromAddress = Registry /\ ev.Type \in {"TokenAdded", "TokenRemoved"}
                     THEN [t \in DOMAIN le \cup {ev.Token} |->
                              IF t = ev.Token THEN ev.Type ELSE le[t]]
                     ELSE le
         IN  LastEventAfter(next, Tail(evs))

RECURSIVE RemovedRatedAfter(_, _, _)
\* the tokens whose last registry event is a TokenRemoved that the handler
\* ran on while the token's rate was stored
RemovedRatedAfter(rr, tk, evs) ==
    IF evs = << >> THEN rr
    ELSE LET ev == Head(evs)
             rated == ev.Token \in DOMAIN tk /\ tk[ev.Token].RateTime # 0
         IN  CASE ev.FromAddress = Registry /\ ev.Type = "TokenRemoved" ->
                    RemovedRatedAfter(IF rated THEN rr \cup {ev.Token} ELSE rr \ {ev.Token},
                                      onTokenRemoved(tk, ev), Tail(evs))
               [] ev.FromAddress = Registry /\ ev.Type = "TokenAdded" ->
                    RemovedRatedAfter(rr \ {ev.Token}, onTokenAdded(tk, ev), Tail(evs))
               [] OTHER -> RemovedRatedAfter(rr, tk, Tail(evs))

\* run: case data := <-ch, the batch applied under i.dbMu.Lock()
TokenIndexerApply ==
    /\ tokenPc = "run"
    /\ tokenCh # << >>
    /\ dbMu = "free"
    /\ LET data == Head(tokenCh)
       IN  /\ tokens' = ApplyTokenEvents(tokens, data.Events)
           /\ tokenLast' = TokenWatermark(data)
           /\ tokenApplied' = tokenApplied \cup SeqToSet(data.Events)
           /\ tokenPrev' = [tokens |-> tokens, batch |-> data.Events]
           /\ lastTokenEvent' = LastEventAfter(lastTokenEvent, data.Events)
           /\ removedRated' = RemovedRatedAfter(removedRated, tokens, data.Events)
    /\ tokenCh' = Tail(tokenCh)
    /\ UNCHANGED <<chainVars, watcherVars, agentVars, tokenPc, balanceVars,
                   fetched, agentApplied, agentPrev, usageVars, runVars, listVars, httpVars, queryVars, fetchVars, fanoutVars,
                   dbMu, pricePc, priceTicks, priceSnap, priceTodo, priceRead,
                   priceFailed, priceStored, rateStored>>

(***************************************************************************)
(* TokenIndexer.updatePricesTask: one round per tick of the ticker.        *)
(***************************************************************************)
\* db.GetTokens(): a copy of the token set
GetTokens(tk) == tk

\* the read lock kept while the rates are fetched
PriceGetTokens_KeepLock ==
    /\ pricePc = "snap"
    /\ priceSnap' = GetTokens(tokens)
    /\ priceRead' = GetTokens(tokens)
    /\ priceTodo' = DOMAIN tokens
    /\ priceFailed' = {}
    /\ pricePc' = "rates"
    /\ UNCHANGED <<chainVars, watcherVars, agentVars, tokenVars, balanceVars, historyVars,
                   usageVars, runVars, listVars, httpVars, queryVars, fetchVars, fanoutVars, dbMu, priceTicks, priceStored, rateStored,
                   lastTokenEvent, removedRated>>

\* case <-ticker.C: i.dbMu.RLock()
PriceTick ==
    /\ pricePc = "wait"
    /\ priceTicks < MaxTicks
    /\ dbMu = "free"
    /\ dbMu' = "r-price"
    /\ pricePc' = "snap"
    /\ priceTicks' = priceTicks + 1
    /\ UNCHANGED <<chainVars, watcherVars, agentVars, tokenVars, balanceVars, historyVars,
                   usageVars, runVars, listVars, httpVars, queryVars, fetchVars, fanoutVars, priceSnap, priceTodo, priceRead, priceFailed,
                   priceStored, rateStored, lastTokenEvent, removedRated>>

\* tokens := i.db.GetTokens(); i.dbMu.RUnlock()
PriceGetTokens ==
    /\ pricePc = "snap"
    /\ priceSnap' = GetTokens(tokens)
    /\ priceRead' = GetTokens(tokens)
    /\ priceTodo' = DOMAIN tokens
    /\ priceFailed' = {}
    /\ dbMu' = "free"
    /\ pricePc' = "rates"
    /\ UNCHANGED <<chainVars, watcherVars, agentVars, tokenVars, balanceVars, historyVars,
                   usageVars, runVars, listVars, httpVars, queryVars, fetchVars, fanoutVars, priceTicks, priceStored, rateStored,
                   lastTokenEvent, removedRated>>

\* if err != nil { slog.Error(...); continue }
GetRateFailed(snap, t) == snap

\* tokens[tokenBytes].Rate = rate; tokens[tokenBytes].RateTime = time.Now()
GetRateSucceeded(snap, t, rate, time) ==
    [snap EXCEPT ![t] = [@ EXCEPT !.Rate = rate, !.RateTime = time]]

\* one iteration of the loop over the local set: priceFeed.GetRate(ctx, token)
PriceGetRate(t) ==
    /\ pricePc = "rates"
    /\ t \in priceTodo
    /\ priceTodo' = priceTodo \ {t}
    /\ \/ \E rate \in Rates :
             /\ priceSnap' = GetRateSucceeded(priceSnap, t, rate, priceTicks)
             /\ UNCHANGED priceFailed
       \/ /\ priceSnap' = GetRateFailed(priceSnap, t)
          /\ priceFailed' = priceFailed \cup {t}
    /\ UNCHANGED <<chainVars, watcherVars, agentVars, tokenVars, balanceVars, historyVars,
                   usageVars, runVars, listVars, httpVars, queryVars, fetchVars, fanoutVars, dbMu, pricePc, priceTicks, priceRead,
                   priceStored, rateStored, lastTokenEvent, removedRated>>

\* the loop is over: i.dbMu.Lock()
PriceLock ==
    /\ pricePc = "rates"
    /\ priceTodo = {}
    /\ dbMu = "free"
    /\ dbMu' = "w-price"
    /\ pricePc' = "store"
    /\ UNCHANGED <<chainVars, watcherVars, agentVars, tokenVars, balanceVars, historyVars,
                   usageVars, runVars, listVars, httpVars, queryVars, fetchVars, fanoutVars, priceTicks, priceSnap, priceTodo, priceRead,
                   priceFailed, priceStored, rateStored, lastTokenEvent, removedRated>>

\* for tokenBytes, info := range tokens { i.db.SetTokenInfo(tokenBytes, info) }
StoreTokens(tk, snap) ==
    [t \in DOMAIN tk \cup DOMAIN snap |-> IF t \in DOMAIN snap THEN snap[t] ELSE tk[t]]

\* the store loop, then i.dbMu.Unlock()
PriceStore ==
    /\ pricePc = "store"
    /\ tokens' = StoreTokens(tokens, priceSnap)
    /\ priceStored' = priceSnap
    /\ rateStored' = rateStored \cup (DOMAIN priceSnap \ priceFailed)
    /\ dbMu' = "free"
    /\ pricePc' = "wait"
    /\ UNCHANGED <<chainVars, watcherVars, agentVars, tokenPc, tokenCh, tokenLast,
                   balanceVars, historyVars, usageVars, runVars, listVars, httpVars, queryVars, fetchVars, fanoutVars, priceTicks, priceSnap,
                   priceTodo, priceRead, priceFailed, lastTokenEvent, removedRated>>

(***************************************************************************)
(* TokenIndexer: the queries.                                              *)
(***************************************************************************)
\* db.GetTokenInfo(token)
GetTokenInfo(tk, token) ==
    IF token \in DOMAIN tk THEN [ok |-> TRUE, info |-> tk[token]] ELSE [ok |-> FALSE]

GetTokenMinPromptPrice(tk, token) ==
    LET r == GetTokenInfo(tk, token)
    IN  IF ~r.ok THEN [ok |-> FALSE, value |-> 0]
        ELSE [ok |-> TRUE, value |-> r.info.MinPromptPrice]

GetTokenMinInitialBalance(tk, token) ==
    LET r == GetTokenInfo(tk, token)
    IN  IF ~r.ok THEN [ok |-> FALSE, value |-> 0]
        ELSE [ok |-> TRUE, value |-> r.info.MinInitialBalance]

\* not found while the rate was never stored: tokenInfo.RateTime.IsZero()
GetTokenRate(tk, token) ==
    LET r == GetTokenInfo(tk, token)
    IN  IF ~r.ok THEN [ok |-> FALSE, value |-> 0]
        ELSE IF r.info.RateTime = 0 THEN [ok |-> FALSE, value |-> 0]
        ELSE [ok |-> TRUE, value |-> r.info.Rate]

(***************************************************************************)
(* AgentBalanceIndexer: creation of balance rows.                          *)
(***************************************************************************)
PendingBalance == [Pending |-> TRUE, Token |-> ZeroAddress, Amount |-> 0, EndTime |-> 0]

\* a balance row is created for the address, pending until its first read
PushAgent(rows, addr) ==
    IF addr \in DOMAIN rows
    THEN rows
    ELSE [a \in DOMAIN rows \cup {addr} |-> IF a = addr THEN PendingBalance ELSE rows[a]]

\* AgentRegistered observed: the row of the new agent is created
onAgentRegisteredEvent(rows, ev) == PushAgent(rows, ev.Agent)

\* an end of a transfer gets a row once GetOrFetchAgentInfo knows it as an agent
PushIfAgent(rows, infos, last, addr, block, rpc) ==
    IF GetOrFetchAgentInfo(infos, last, addr, block, rpc).err
    THEN rows
    ELSE PushAgent(rows, addr)

\* Transfer observed: both ends are looked up at the event's block
onTransferEvent(rows, infos, last, ev, rpcOf) ==
    PushIfAgent(PushIfAgent(rows, infos, last, ev.From, ev.BlockNumber, rpcOf[ev.From]),
                infos, last, ev.To, ev.BlockNumber, rpcOf[ev.To])

RECURSIVE ApplyBalanceEvents(_, _, _, _, _)
ApplyBalanceEvents(rows, infos, last, evs, rpcOf) ==
    IF evs = << >> THEN rows
    ELSE LET ev == Head(evs)
             next == CASE ev.Type = "AgentRegistered" -> onAgentRegisteredEvent(rows, ev)
                       [] ev.Type = "Transfer" -> onTransferEvent(rows, infos, last, ev, rpcOf)
                       [] OTHER -> rows
         IN  ApplyBalanceEvents(next, infos, last, Tail(evs), rpcOf)

AgentBalanceIndexerStart ==
    /\ balancePc = "start"
    /\ balancePc' = "run"
    /\ subs' = subs \cup {"balanceAgent", "balanceTransfer"}
    /\ UNCHANGED <<chainVars, watcherLast, watcherPc, watcherWindow, watcherPending,
                   agentVars, tokenVars, balanceCh, balances, balanceLast, historyVars,
                   usageVars, runVars, listVars, httpVars, queryVars, fetchVars, priceVars, fanoutVars>>

AgentBalanceIndexerApply ==
    /\ balancePc = "run"
    /\ balanceCh # << >>
    /\ LET data == Head(balanceCh)
       IN  /\ \E failing \in SUBSET Addr :
                 balances' = ApplyBalanceEvents(balances, agentInfos, agentLast,
                                                data.Events, RpcAnswers(failing))
           /\ balanceLast' = data.ToBlock
    /\ balanceCh' = Tail(balanceCh)
    /\ UNCHANGED <<chainVars, watcherVars, agentVars, tokenVars, balancePc,
                   historyVars, usageVars, runVars, listVars, httpVars, queryVars, fetchVars, priceVars, fanoutVars>>

\* GetAgentLeaderboard: the agents that have a balance row
LeaderboardAgents == DOMAIN balances

\* GetBalance(addr)
GetBalance(rows, addr) ==
    IF addr \in DOMAIN rows THEN [ok |-> TRUE, balance |-> rows[addr]] ELSE [ok |-> FALSE]

(***************************************************************************)
(* AgentBalanceIndexer: the leaderboard.                                   *)
(***************************************************************************)
RECURSIVE BytesLess(_, _)
\* bytes.Compare(a, b) < 0
BytesLess(a, b) ==
    IF b = << >> THEN FALSE
    ELSE IF a = << >> THEN TRUE
    ELSE IF Head(a) # Head(b) THEN Head(a) < Head(b)
    ELSE BytesLess(Tail(a), Tail(b))

\* the rate of the row's token is known: TokenIndexer.GetTokenRate answers
RateKnown(tk, row) == GetTokenRate(tk, row.Token).ok

\* amount times rate; the common divisor 10^18 is left out, the values are
\* compared exactly
UsdValue(tk, row) ==
    IF RateKnown(tk, row) THEN row.Amount * GetTokenRate(tk, row.Token).value ELSE 0

\* the order reversed: the smallest value first
RanksBefore_Ascending(tk, rows, a, b) ==
    LET ka == RateKnown(tk, rows[a])
        kb == RateKnown(tk, rows[b])
        ua == UsdValue(tk, rows[a])
        ub == UsdValue(tk, rows[b])
    IN  IF ka # kb THEN ka
        ELSE IF ua # ub THEN ua < ub
        ELSE IF rows[a].EndTime # rows[b].EndTime THEN rows[a].EndTime < rows[b].EndTime
        ELSE BytesLess(a, b)

\* the comparator: known rates first, usdValue descending, endTime
\* ascending, then the address
RanksBefore(tk, rows, a, b) ==
    LET ka == RateKnown(tk, rows[a])
        kb == RateKnown(tk, rows[b])
        ua == UsdValue(tk, rows[a])
        ub == UsdValue(tk, rows[b])
    IN  IF ka # kb THEN ka
        ELSE IF ua # ub THEN ua > ub
        ELSE IF rows[a].EndTime # rows[b].EndTime THEN rows[a].EndTime < rows[b].EndTime
        ELSE BytesLess(a, b)

\* the sorted snapshot
LeaderboardOrder(tk, rows) ==
    [i \in 1..Cardinality(DOMAIN rows) |->
        CHOOSE a \in DOMAIN rows :
            Cardinality({b \in DOMAIN rows : RanksBefore(tk, rows, b, a)}) = i - 1]

EmptyPage == [items |-> << >>, AgentCount |-> 0, LastBlock |-> 0]

\* GetAgentLeaderboard(start, end): the slice [start, end) of the sorted
\* snapshot, the inputs clamped to [0, agentCount]
GetAgentLeaderboard(tk, rows, last, start, end) ==
    LET order == LeaderboardOrder(tk, rows)
        lo == MinOf(start, Len(order))
        hi == MinOf(end, Len(order))
    IN  [items |-> IF lo < hi THEN SubSeq(order, lo + 1, hi) ELSE << >>,
         AgentCount |-> Len(order),
         LastBlock |-> last]

\* a second token of the allow-list
Token2 == <<84, 50>>
LeaderboardTokens == {Token1, Token2}
Amounts  == {2, 3, 4}
EndTimes == {1, 2}

\* the token projection after a TokenAdded of the registry for t
LeaderboardTokenAdded(t) ==
    /\ t \notin DOMAIN tokens
    /\ tokens' = onTokenAdded(tokens, TokenAddedEvent(Registry, t))
    /\ UNCHANGED <<usageVars, chainVars, watcherVars, agentVars, tokenPc, tokenCh, tokenLast,
                   balanceVars, historyVars, fanoutVars, priceVars, fetchVars, queryVars,
                   httpVars, listVars, runVars>>

\* a rate update: the price task stores a rate for t
LeaderboardRateUpdate(t, rate) ==
    /\ t \in DOMAIN tokens
    /\ tokens' = StoreTokens(tokens,
                     [x \in {t} |-> [tokens[t] EXCEPT !.Rate = rate, !.RateTime = 1]])
    /\ UNCHANGED <<usageVars, chainVars, watcherVars, agentVars, tokenPc, tokenCh, tokenLast,
                   balanceVars, historyVars, fanoutVars, priceVars, fetchVars, queryVars,
                   httpVars, listVars, runVars>>

\* the balance row of a is created, pending
LeaderboardPushAgent(a) ==
    /\ a \notin DOMAIN balances
    /\ balances' = PushAgent(balances, a)
    /\ UNCHANGED <<usageVars, chainVars, watcherVars, agentVars, tokenVars, balancePc,
                   balanceCh, balanceLast, historyVars, fanoutVars, priceVars, fetchVars,
                   queryVars, httpVars, listVars, runVars>>

\* a balance update: the row of a is refreshed from the chain
LeaderboardBalanceUpdate(a, t, amount, endTime) ==
    /\ a \in DOMAIN balances
    /\ balances' = [balances EXCEPT ![a] = [Pending |-> FALSE, Token |-> t,
                                            Amount |-> amount, EndTime |-> endTime]]
    /\ UNCHANGED <<usageVars, chainVars, watcherVars, agentVars, tokenVars, balancePc,
                   balanceCh, balanceLast, historyVars, fanoutVars, priceVars, fetchVars,
                   queryVars, httpVars, listVars, runVars>>

\* a call of GetAgentLeaderboard(start, end)
LeaderboardCall(start, end) ==
    /\ listCall' = [kind |-> "snapshot", start |-> start, end |-> end]
    /\ listPage' = GetAgentLeaderboard(tokens, balances, balanceLast, start, end)
    /\ UNCHANGED <<usageVars, chainVars, watcherVars, agentVars, tokenVars, balanceVars,
                   historyVars, fanoutVars, priceVars, fetchVars, queryVars, httpVars,
                   listPc, listIdx, listOut, listLog, listResp, runVars>>

(***************************************************************************)
(* UIService: GET /agent/:address.  The three reads are three critical     *)
(* sections of three indexers; the indexers run between them.              *)
(***************************************************************************)
\* a nil *felt.Felt and a nil *big.Int
NilFelt == << >>
NilInt  == -1

\* db.usages[addr]
GetAgentUsage(us, addr) ==
    IF addr \in DOMAIN us THEN [ok |-> TRUE, usage |-> us[addr]] ELSE [ok |-> FALSE]

NoReads    == [balance |-> [read |-> FALSE], info |-> [read |-> FALSE],
               usage |-> [read |-> FALSE], infoAtStart |-> FALSE, usageAtStart |-> FALSE]
NoResponse == [status |-> 0]

StatusOK       == 200
StatusNotFound == 404

\* the latest prompts as the response carries them
LatestPromptsData(latest) ==
    [i \in 1..Len(latest) |->
        [Prompt |-> latest[i].Prompt, IsSuccess |-> latest[i].IsSuccess,
         DrainedTo |-> latest[i].DrainedTo]]

\* &AgentData{...}: the numbers written in decimal
AgentData(addr, balance, info, usage, time) ==
    [Pending       |-> balance.Pending,
     Address       |-> addr,
     Name          |-> info.Name,
     Token         |-> balance.Token,
     Balance       |-> FormatUint(balance.Amount),
     EndTime       |-> FormatUint(balance.EndTime),
     IsDrained     |-> usage.IsDrained,
     IsFinalized   |-> time > balance.EndTime \/ usage.IsDrained,
     PromptPrice   |-> FormatUint(info.PromptPrice),
     BreakAttempts |-> FormatUint(usage.BreakAttempts),
     LatestPrompts |-> LatestPromptsData(usage.LatestPrompts)]

\* a missing read answered with 200 and empty data
AgentResponse_MissIsOK(addr, reads, time) ==
    IF ~reads.balance.ok \/ ~reads.info.ok \/ ~reads.usage.ok
    THEN [status |-> StatusOK]
    ELSE IF reads.balance.balance.Token = NilFelt \/ reads.balance.balance.Amount = NilInt
    THEN [status |-> StatusNotFound]
    ELSE [status |-> StatusOK,
          body |-> AgentData(addr, reads.balance.balance, reads.info.info,
                             reads.usage.usage, time)]

\* what HandleGetAgent writes once its last read has returned
AgentResponse(addr, reads, time) ==
    IF ~reads.usage.ok
    THEN [status |-> StatusNotFound]
    ELSE IF reads.balance.balance.Token = NilFelt \/ reads.balance.balance.Amount = NilInt
    THEN [status |-> StatusNotFound]
    ELSE [status |-> StatusOK,
          body |-> AgentData(addr, reads.balance.balance, reads.info.info,
                             reads.usage.usage, time)]

\* the request arrives: s.agentBalanceIndexer.GetBalance(agentAddr)
HandleGetAgentBalance(addr) ==
    /\ getPc \in {"idle", "done"}
    /\ getAddr' = addr
    /\ LET r == GetBalance(balances, addr)
       IN  /\ getRead' = [NoReads EXCEPT !.balance = [read |-> TRUE] @@ r,
                                         !.infoAtStart = addr \in DOMAIN agentInfos,
                                         !.usageAtStart = addr \in DOMAIN usages]
           /\ IF r.ok
              THEN getPc' = "info" /\ getResp' = NoResponse
              ELSE getPc' = "done" /\ getResp' = [status |-> StatusNotFound]
    /\ UNCHANGED <<chainVars, watcherVars, agentVars, tokenVars, balanceVars, historyVars,
                   usageVars, runVars, listVars, fanoutVars, priceVars, fetchVars, queryVars>>

\* s.agentIndexer.GetAgentInfo(agentAddr)
HandleGetAgentInfo ==
    /\ getPc = "info"
    /\ LET r == GetAgentInfo(agentInfos, getAddr)
       IN  /\ getRead' = [getRead EXCEPT !.info = [read |-> TRUE] @@ r]
           /\ IF r.ok
              THEN getPc' = "usage" /\ UNCHANGED getResp
              ELSE getPc' = "done" /\ getResp' = [status |-> StatusNotFound]
    /\ UNCHANGED <<chainVars, watcherVars, agentVars, tokenVars, balanceVars, historyVars,
                   usageVars, runVars, listVars, fanoutVars, priceVars, fetchVars, queryVars, getAddr>>

\* s.agentUsageIndexer.GetAgentUsage(agentAddr), then the response
HandleGetAgentUsage ==
    /\ getPc = "usage"
    /\ LET r == GetAgentUsage(usages, getAddr)
           reads == [getRead EXCEPT !.usage = [read |-> TRUE] @@ r]
       IN  /\ getRead' = reads
           /\ getResp' = AgentResponse(getAddr, reads, now)
    /\ getPc' = "done"
    /\ UNCHANGED <<chainVars, watcherVars, agentVars, tokenVars, balanceVars, historyVars,
                   usageVars, runVars, listVars, fanoutVars, priceVars, fetchVars, queryVars, getAddr>>

(***************************************************************************)
(* UIService: the bulk handlers.  The page is read in one critical         *)
(* section, then the agents of the page are visited one by one while the   *)
(* indexers run.  A request changes no projection, so one request per      *)
(* behaviour, begun in any reachable state, stands for all of them.        *)
(***************************************************************************)
\* &AgentPageResponse{...}
AgentPageResponse(out, page, call) ==
    [status |-> StatusOK, Agents |-> out, Total |-> page.AgentCount, Page |-> call.page,
     PageSize |-> PageSize, LastBlock |-> page.LastBlock]

\* HandleGetLeaderboard up to the loop: GetAgentLeaderboard(page*pageSize,
\* (page+1)*pageSize)
HandleGetLeaderboardBegin(page) ==
    /\ listPc = "idle"
    /\ listCall' = [kind |-> "leaderboard", page |-> page, user |-> ZeroAddress]
    /\ listPage' = GetAgentLeaderboard(tokens, balances, balanceLast,
                                       page * PageSize, (page + 1) * PageSize)
    /\ listIdx' = 1
    /\ listOut' = << >>
    /\ listLog' = << >>
    /\ listResp' = NoResponse
    /\ listPc' = "loop"
    /\ UNCHANGED <<chainVars, watcherVars, agentVars, tokenVars, balanceVars, historyVars,
                   usageVars, runVars, fanoutVars, priceVars, fetchVars, queryVars, httpVars>>

\* HandleGetUserAgents up to the loop: GetAgentsByCreator(user, page*pageSize,
\* pageSize)
HandleGetUserAgentsBegin(user, page) ==
    /\ listPc = "idle"
    /\ listCall' = [kind |-> "user", page |-> page, user |-> user]
    /\ listIdx' = 1
    /\ listOut' = << >>
    /\ listLog' = << >>
    /\ LET r == GetAgentsByCreator(agentsByCreator, agentInfos, agentLast, user,
                                   page * PageSize, PageSize)
       IN  IF r.found
           THEN /\ listPage' = [items |-> r.Agents, AgentCount |-> r.AgentCount,
                                LastBlock |-> r.LastBlock]
                /\ listResp' = NoResponse
                /\ listPc' = "loop"
           ELSE /\ listPage' = EmptyPage
                /\ listResp' = [status |-> StatusNotFound]
                /\ listPc' = "done"
    /\ UNCHANGED <<chainVars, watcherVars, agentVars, tokenVars, balanceVars, historyVars,
                   usageVars, runVars, fanoutVars, priceVars, fetchVars, queryVars, httpVars>>

\* an agent with a missing read still put on the page, with empty data
VisitAgent_KeepMissing(kind, item, infos, rows, us, time) ==
    LET addr == IF kind = "leaderboard" THEN item ELSE item.Address
        info == IF kind = "leaderboard" THEN GetAgentInfo(infos, addr)
                ELSE [ok |-> TRUE, info |-> item]
        bal  == GetBalance(rows, addr)
        use  == GetAgentUsage(us, addr)
    IN  IF ~info.ok \/ ~bal.ok \/ ~use.ok
        THEN [keep |-> TRUE, data |-> [Address |-> addr]]
        ELSE [keep |-> TRUE, data |-> AgentData(addr, bal.balance, info.info, use.usage, time)]

\* one iteration of the loop: the reads of one agent, continue on a miss
VisitAgent(kind, item, infos, rows, us, time) ==
    LET addr == IF kind = "leaderboard" THEN item ELSE item.Address
        info == IF kind = "leaderboard" THEN GetAgentInfo(infos, addr)
                ELSE [ok |-> TRUE, info |-> item]
        bal  == GetBalance(rows, addr)
        use  == GetAgentUsage(us, addr)
    IN  IF ~info.ok \/ ~bal.ok \/ ~use.ok
        THEN [keep |-> FALSE]
        ELSE IF kind = "leaderboard"
                /\ (bal.balance.Token = NilFelt \/ bal.balance.Amount = NilInt)
        THEN [keep |-> FALSE]
        ELSE [keep |-> TRUE, data |-> AgentData(addr, bal.balance, info.info, use.usage, time)]

HandleListAgent ==
    /\ listPc = "loop"
    /\ listIdx <= Len(listPage.items)
    /\ LET item == listPage.items[listIdx]
           addr == IF listCall.kind = "leaderboard" THEN item ELSE item.Address
           v    == VisitAgent(listCall.kind, item, agentInfos, balances, usages, now)
       IN  /\ listOut' = IF v.keep THEN Append(listOut, v.data) ELSE listOut
           /\ listLog' = Append(listLog,
                  [addr |-> addr,
                   hit |-> /\ addr \in DOMAIN balances
                           /\ addr \in DOMAIN usages
                           /\ (listCall.kind = "leaderboard" => addr \in DOMAIN agentInfos)])
    /\ listIdx' = listIdx + 1
    /\ UNCHANGED <<chainVars, watcherVars, agentVars, tokenVars, balanceVars, historyVars,
                   usageVars, runVars, fanoutVars, priceVars, fetchVars, queryVars, httpVars,
                   listPc, listCall, listPage, listResp>>

\* the loop is over: c.JSON(http.StatusOK, &AgentPageResponse{...})
HandleListRespond ==
    /\ listPc = "loop"
    /\ listIdx > Len(listPage.items)
    /\ listResp' = AgentPageResponse(listOut, listPage, listCall)
    /\ listPc' = "done"
    /\ UNCHANGED <<chainVars, watcherVars, agentVars, tokenVars, balanceVars, historyVars,
                   usageVars, runVars, fanoutVars, priceVars, fetchVars, queryVars, httpVars,
                   listCall, listPage, listIdx, listOut, listLog>>

(***************************************************************************)
(* UIService.Run: six tasks in one errgroup.  The group keeps the first    *)
(* non-nil error a task returns and cancels the tasks' context when it     *)
(* keeps it; Wait returns the kept error once every task has returned.     *)
(***************************************************************************)
Tasks == {"eventWatcher", "agentIndexer", "agentBalanceIndexer", "agentUsageIndexer",
          "tokenIndexer", "server"}

Running  == "running"
NoError  == "nil"
Canceled == "context canceled"

\* the error of a task that failed on its own
Failure(t) ==
    CASE t = "agentBalanceIndexer" -> "agentBalanceIndexer failed"
      [] t = "agentUsageIndexer"   -> "agentUsageIndexer failed"
      [] OTHER                     -> "task failed"

\* the tasks whose code is absent and that may fail on their own
FailingTasks == {"agentBalanceIndexer", "agentUsageIndexer"}

\* the context handed to Run is cancelled; the tasks' context is its child
ParentCancel ==
    /\ parentCtx = "live"
    /\ parentCtx' = "cancelled"
    /\ groupCtx' = "cancelled"
    /\ UNCHANGED <<usageVars, chainVars, watcherVars, agentVars, tokenVars, balanceVars,
                   historyVars, fanoutVars, priceVars, fetchVars, queryVars, httpVars,
                   listVars, groupErr, taskErr, returnLog, runResult>>

\* g.Go(f): f has returned err; errOnce keeps the first non-nil error and
\* cancels the group's context
GroupGo(t, err) ==
    /\ taskErr[t] = Running
    /\ taskErr' = [taskErr EXCEPT ![t] = err]
    /\ returnLog' = Append(returnLog, [task |-> t, err |-> err])
    /\ IF err # NoError /\ groupErr = NoError
       THEN groupErr' = err /\ groupCtx' = "cancelled"
       ELSE UNCHANGED <<groupErr, groupCtx>>
    /\ UNCHANGED <<parentCtx, runResult>>

\* EventWatcher.Run returns the cancellation cause
WatcherReturn ==
    /\ groupCtx = "cancelled"
    /\ watcherPc = "poll"
    /\ watcherPc' = "returned"
    /\ GroupGo("eventWatcher", Canceled)
    /\ UNCHANGED <<usageVars, chainVars, subs, watcherLast, watcherWindow, watcherPending,
                   agentVars, tokenVars, balanceVars, historyVars, fanoutVars, priceVars,
                   fetchVars, queryVars, httpVars, listVars>>

\* the loop returning with its subscription left in the watcher's table
AgentIndexerReturn_KeepSubscription ==
    /\ groupCtx = "cancelled"
    /\ agentPc = "run"
    /\ agentPc' = "returned"
    /\ GroupGo("agentIndexer", Canceled)
    /\ UNCHANGED <<usageVars, chainVars, watcherVars, agentCh, agentInfos, agentsByCreator,
                   agentLast, tokenVars, balanceVars, historyVars, fanoutVars, priceVars,
                   fetchVars, queryVars, httpVars, listVars>>

\* AgentIndexer.run: case <-ctx.Done(): return ctx.Err(), then the deferred
\* watcher.Unsubscribe(subID); Run returns what its only task returned
AgentIndexerReturn ==
    /\ groupCtx = "cancelled"
    /\ agentPc = "run"
    /\ agentPc' = "returned"
    /\ subs' = subs \ {"agent"}
    /\ GroupGo("agentIndexer", Canceled)
    /\ UNCHANGED <<usageVars, chainVars, watcherLast, watcherPc, watcherWindow,
                   watcherPending, agentCh, agentInfos, agentsByCreator, agentLast,
                   tokenVars, balanceVars, historyVars, fanoutVars, priceVars, fetchVars,
                   queryVars, httpVars, listVars>>

\* TokenIndexer.run: case <-ctx.Done(): return ctx.Err(), then the two
\* deferred Unsubscribe calls
TokenRunReturn ==
    /\ groupCtx = "cancelled"
    /\ tokenPc = "run"
    /\ tokenPc' = "returned"
    /\ subs' = subs \ {"tokenAdded", "tokenRemoved"}
    /\ UNCHANGED <<usageVars, chainVars, watcherLast, watcherPc, watcherWindow,
                   watcherPending, agentVars, tokenCh, tokens, tokenLast, balanceVars,
                   historyVars, fanoutVars, priceVars, fetchVars, queryVars, httpVars,
                   listVars, runVars>>

\* TokenIndexer.updatePricesTask: case <-ctx.Done(): return ctx.Err()
PriceTaskReturn ==
    /\ groupCtx = "cancelled"
    /\ pricePc = "wait"
    /\ pricePc' = "returned"
    /\ UNCHANGED <<usageVars, chainVars, watcherVars, agentVars, tokenVars, balanceVars,
                   historyVars, fanoutVars, dbMu, priceTicks, priceSnap, priceTodo,
                   priceRead, priceFailed, priceStored, rateStored, lastTokenEvent,
                   removedRated, fetchVars, queryVars, httpVars, listVars, runVars>>

\* TokenIndexer.Run: g.Wait() of its own group, both tasks returned
TokenIndexerReturn ==
    /\ tokenPc = "returned"
    /\ pricePc = "returned"
    /\ GroupGo("tokenIndexer", Canceled)
    /\ UNCHANGED <<usageVars, chainVars, watcherVars, agentVars, tokenVars, balanceVars,
                   historyVars, fanoutVars, priceVars, fetchVars, queryVars, httpVars,
                   listVars>>

\* AgentBalanceIndexer.Run returns: the cancellation, or an error of its own
AgentBalanceIndexerReturn(err) ==
    /\ balancePc = "run"
    /\ err = Canceled => groupCtx = "cancelled"
    /\ balancePc' = "returned"
    /\ subs' = subs \ {"balanceAgent", "balanceTransfer"}
    /\ GroupGo("agentBalanceIndexer", err)
    /\ UNCHANGED <<usageVars, chainVars, watcherLast, watcherPc, watcherWindow,
                   watcherPending, agentVars, tokenVars, balanceCh, balances, balanceLast,
                   historyVars, fanoutVars, priceVars, fetchVars, queryVars, httpVars,
                   listVars>>

\* AgentUsageIndexer.Run returns: the cancellation, or an error of its own
AgentUsageIndexerReturn(err) ==
    /\ err = Canceled => groupCtx = "cancelled"
    /\ GroupGo("agentUsageIndexer", err)
    /\ UNCHANGED <<usageVars, chainVars, watcherVars, agentVars, tokenVars, balanceVars,
                   historyVars, fanoutVars, priceVars, fetchVars, queryVars, httpVars,
                   listVars>>

\* startServer: <-ctx.Done(), server.Shutdown, return nil
ServerReturn ==
    /\ groupCtx = "cancelled"
    /\ GroupGo("server", NoError)
    /\ UNCHANGED <<usageVars, chainVars, watcherVars, agentVars, tokenVars, balanceVars,
                   historyVars, fanoutVars, priceVars, fetchVars, queryVars, httpVars,
                   listVars>>

\* return g.Wait()
RunReturn ==
    /\ runResult = Running
    /\ \A t \in Tasks : taskErr[t] # Running
    /\ runResult' = groupErr
    /\ UNCHANGED <<usageVars, chainVars, watcherVars, agentVars, tokenVars, balanceVars,
                   historyVars, fanoutVars, priceVars, fetchVars, queryVars, httpVars,
                   listVars, parentCtx, groupCtx, groupErr, taskErr, returnLog>>

(***************************************************************************)
(* The contracts: the AgentRegistry, the Agent it deploys and the ERC20.   *)
(* A function is an operator from the storage, the caller and the          *)
(* arguments to [ok, c, ret, moved]: whether the call succeeded, the       *)
(* storage after it, the returned value or the emitted event, and the      *)
(* token transfers made.  A failed assert or an arithmetic overflow        *)
(* reverts the transaction.                                                *)
(***************************************************************************)
Owner == <<79, 87>>
Tee   == <<84, 69>>
Accounts == {Owner, Tee, Creator1, User1, Registry, Agent1, ZeroAddress}
Callers  == {Owner, Tee, Creator1, User1}

CREATOR_REWARD_BPS == 2000
PROTOCOL_FEE_BPS   == 1000
BPS_DENOMINATOR    == 10000
RECLAIM_DELAY      == 1800

\* prices below the minimum, split with a remainder, and too large to split
PromptPrices == {7, 12, 16}
EscrowPrices == {12, 16}
PromptIdRange == 1..MaxPromptId

NoPending == [reclaimer |-> ZeroAddress, amount |-> 0, timestamp |-> 0]
NoTx == [fn |-> "none", caller |-> ZeroAddress, arg |-> << >>, ok |-> FALSE, ret |-> 0,
         moved |-> << >>]

Reverted(c) == [ok |-> FALSE, c |-> c, ret |-> 0, moved |-> << >>]

\* IERC20 transfer / transfer_from with the allowance given: the balance must cover it
CanTransfer(c, from, amount) == c.balances[from] >= amount

Moved(c, from, to, amount) ==
    [c EXCEPT !.balances = [a \in Accounts |->
        IF a = from /\ a = to THEN c.balances[a]
        ELSE IF a = from THEN c.balances[a] - amount
        ELSE IF a = to THEN c.balances[a] + amount
        ELSE c.balances[a]]]

\* a call to an agent that is not deployed fails
\* Agent.transfer: only the registry; the whole balance of the agent goes out
Agent_transfer(c, caller, recipient) ==
    IF ~c.agent_registered \/ caller # Registry THEN Reverted(c)
    ELSE LET balance == c.balances[Agent1]
         IN  [ok |-> TRUE, c |-> Moved(c, Agent1, recipient, balance), ret |-> 0,
              moved |-> <<[from |-> Agent1, to |-> recipient, amount |-> balance]>>]

\* pay_for_prompt that takes no id
Agent_pay_for_prompt_SameId(c, caller) ==
    IF ~c.agent_registered \/ c.paused \/ ~CanTransfer(c, caller, c.prompt_price)
    THEN Reverted(c)
    ELSE LET prompt_id == c.next_prompt_id
             paid == Moved(c, caller, Agent1, c.prompt_price)
         IN  [ok |-> TRUE,
              c |-> [paid EXCEPT !.pending_prompts[prompt_id] =
                                     [reclaimer |-> caller, amount |-> c.prompt_price,
                                      timestamp |-> c.block_timestamp]],
              ret |-> prompt_id,
              moved |-> <<[from |-> caller, to |-> Agent1, amount |-> c.prompt_price]>>]

\* Agent.pay_for_prompt: the registry not paused, the price escrowed, the next id taken
Agent_pay_for_prompt(c, caller) ==
    IF ~c.agent_registered \/ c.paused \/ ~CanTransfer(c, caller, c.prompt_price)
    THEN Reverted(c)
    ELSE LET prompt_id == c.next_prompt_id
             paid == Moved(c, caller, Agent1, c.prompt_price)
         IN  [ok |-> TRUE,
              c |-> [paid EXCEPT !.next_prompt_id = prompt_id + 1,
                                 !.pending_prompts[prompt_id] =
                                     [reclaimer |-> caller, amount |-> c.prompt_price,
                                      timestamp |-> c.block_timestamp]],
              ret |-> prompt_id,
              moved |-> <<[from |-> caller, to |-> Agent1, amount |-> c.prompt_price]>>]

\* reclaim_prompt without the delay
Agent_reclaim_prompt_NoDelay(c, caller, prompt_id, zeroOk) ==
    LET pending == c.pending_prompts[prompt_id]
    IN  IF ~c.agent_registered THEN Reverted(c)
        ELSE IF pending.reclaimer = ZeroAddress /\ ~zeroOk THEN Reverted(c)
        ELSE IF ~CanTransfer(c, Agent1, pending.amount) THEN Reverted(c)
        ELSE [ok |-> TRUE,
              c |-> [Moved(c, Agent1, pending.reclaimer, pending.amount)
                        EXCEPT !.pending_prompts[prompt_id] = NoPending],
              ret |-> [prompt_id |-> prompt_id, amount |-> pending.amount,
                       reclaimer |-> caller],
              moved |-> <<[from |-> Agent1, to |-> pending.reclaimer,
                           amount |-> pending.amount]>>]

\* Agent.reclaim_prompt: after RECLAIM_DELAY the pending amount goes to
\* pending.reclaimer and the entry is cleared; zeroOk says whether the token
\* accepts a transfer to the zero address
Agent_reclaim_prompt(c, caller, prompt_id, zeroOk) ==
    LET pending == c.pending_prompts[prompt_id]
    IN  IF ~c.agent_registered THEN Reverted(c)
        ELSE IF ~(c.block_timestamp >= pending.timestamp + RECLAIM_DELAY) THEN Reverted(c)
        ELSE IF pending.reclaimer = ZeroAddress /\ ~zeroOk THEN Reverted(c)
        ELSE IF ~CanTransfer(c, Agent1, pending.amount) THEN Reverted(c)
        ELSE [ok |-> TRUE,
              c |-> [Moved(c, Agent1, pending.reclaimer, pending.amount)
                        EXCEPT !.pending_prompts[prompt_id] = NoPending],
              ret |-> [prompt_id |-> prompt_id, amount |-> pending.amount,
                       reclaimer |-> caller],
              moved |-> <<[from |-> Agent1, to |-> pending.reclaimer,
                           amount |-> pending.amount]>>]

\* the fee of bps basis points, rounded up
BpsFee_RoundUp(amount, bps) == (amount * bps + BPS_DENOMINATOR - 1) \div BPS_DENOMINATOR

\* (amount * BPS.into()) / BPS_DENOMINATOR.into() in u256
BpsFee(amount, bps) == (amount * bps) \div BPS_DENOMINATOR

\* consume_prompt that leaves the pending entry
Agent_consume_prompt_NoClear(c, caller, prompt_id) ==
    LET pending == c.pending_prompts[prompt_id]
        amount  == pending.amount
        creator_fee  == BpsFee(amount, CREATOR_REWARD_BPS)
        protocol_fee == BpsFee(amount, PROTOCOL_FEE_BPS)
        agent_amount == amount - creator_fee - protocol_fee
    IN  IF ~c.agent_registered \/ caller # Registry THEN Reverted(c)
        ELSE IF pending.reclaimer = ZeroAddress THEN Reverted(c)
        ELSE IF amount * CREATOR_REWARD_BPS > MaxU256 THEN Reverted(c)
        ELSE IF ~CanTransfer(c, Agent1, creator_fee + protocol_fee) THEN Reverted(c)
        ELSE [ok |-> TRUE,
              c |-> Moved(Moved(c, Agent1, c.creator, creator_fee),
                          Agent1, Registry, protocol_fee),
              ret |-> [prompt_id |-> prompt_id, amount |-> agent_amount,
                       creator_fee |-> creator_fee, protocol_fee |-> protocol_fee],
              moved |-> <<[from |-> Agent1, to |-> c.creator, amount |-> creator_fee],
                          [from |-> Agent1, to |-> Registry, amount |-> protocol_fee]>>]

\* Agent.consume_prompt: only the registry, only a pending prompt; the fees
\* go to the creator and to the registry, the entry is cleared
Agent_consume_prompt(c, caller, prompt_id) ==
    LET pending == c.pending_prompts[prompt_id]
        amount  == pending.amount
        creator_fee  == BpsFee(amount, CREATOR_REWARD_BPS)
        protocol_fee == BpsFee(amount, PROTOCOL_FEE_BPS)
        agent_amount == amount - creator_fee - protocol_fee
    IN  IF ~c.agent_registered \/ caller # Registry THEN Reverted(c)
        ELSE IF pending.reclaimer = ZeroAddress THEN Reverted(c)
        ELSE IF amount * CREATOR_REWARD_BPS > MaxU256 THEN Reverted(c)
        ELSE IF ~CanTransfer(c, Agent1, creator_fee + protocol_fee) THEN Reverted(c)
        ELSE [ok |-> TRUE,
              c |-> [Moved(Moved(c, Agent1, c.creator, creator_fee),
                           Agent1, Registry, protocol_fee)
                        EXCEPT !.pending_prompts[prompt_id] = NoPending],
              ret |-> [prompt_id |-> prompt_id, amount |-> agent_amount,
                       creator_fee |-> creator_fee, protocol_fee |-> protocol_fee],
              moved |-> <<[from |-> Agent1, to |-> c.creator, amount |-> creator_fee],
                          [from |-> Agent1, to |-> Registry, amount |-> protocol_fee]>>]

\* AgentRegistry.register_agent: not paused, a supported token, the price and
\* the initial balance at least the token's minimums; the agent is deployed
\* with the caller as creator and funded from the caller
Registry_register_agent(c, caller, prompt_price, initial_balance) ==
    IF c.paused THEN Reverted(c)
    ELSE IF c.token_params.min_prompt_price = 0 THEN Reverted(c)
    ELSE IF ~(prompt_price >= c.token_params.min_prompt_price) THEN Reverted(c)
    ELSE IF ~(initial_balance >= c.token_params.min_initial_balance) THEN Reverted(c)
    ELSE IF ~CanTransfer(c, caller, initial_balance) THEN Reverted(c)
    ELSE [ok |-> TRUE,
          c |-> [Moved(c, caller, Agent1, initial_balance)
                    EXCEPT !.agent_registered = TRUE, !.prompt_price = prompt_price,
                           !.creator = caller, !.next_prompt_id = 1],
          ret |-> Agent1,
          moved |-> <<[from |-> caller, to |-> Agent1, amount |-> initial_balance]>>]

\* transfer open to every caller
Registry_transfer_AnyCaller(c, caller, recipient) ==
    IF c.paused THEN Reverted(c)
    ELSE Agent_transfer(c, Registry, recipient)

\* AgentRegistry.transfer: not paused, only the tee
Registry_transfer(c, caller, recipient) ==
    IF c.paused THEN Reverted(c)
    ELSE IF caller # Tee THEN Reverted(c)
    ELSE Agent_transfer(c, Registry, recipient)

\* AgentRegistry.consume_prompt: not paused, only the tee
Registry_consume_prompt(c, caller, prompt_id) ==
    IF c.paused THEN Reverted(c)
    ELSE IF caller # Tee THEN Reverted(c)
    ELSE Agent_consume_prompt(c, Registry, prompt_id)

\* AgentRegistry.pause / unpause: only the owner; Pausable asserts the change
Registry_pause(c, caller) ==
    IF caller # Owner \/ c.paused THEN Reverted(c)
    ELSE [ok |-> TRUE, c |-> [c EXCEPT !.paused = TRUE], ret |-> 0, moved |-> << >>]

Registry_unpause(c, caller) ==
    IF caller # Owner \/ ~c.paused THEN Reverted(c)
    ELSE [ok |-> TRUE, c |-> [c EXCEPT !.paused = FALSE], ret |-> 0, moved |-> << >>]

\* AgentRegistry.add_supported_token / remove_supported_token: only the owner
Registry_add_supported_token(c, caller, min_prompt_price, min_initial_balance) ==
    IF caller # Owner THEN Reverted(c)
    ELSE [ok |-> TRUE,
          c |-> [c EXCEPT !.token_params =
                    [min_prompt_price |-> min_prompt_price,
                     min_initial_balance |-> min_initial_balance]],
          ret |-> 0, moved |-> << >>]

Registry_remove_supported_token(c, caller) ==
    IF caller # Owner THEN Reverted(c)
    ELSE [ok |-> TRUE,
          c |-> [c EXCEPT !.token_params =
                    [min_prompt_price |-> 0, min_initial_balance |-> 0]],
          ret |-> 0, moved |-> << >>]

\* the registry constructed, no token supported, no agent deployed
Constructed ==
    [paused |-> FALSE,
     token_params |-> [min_prompt_price |-> 0, min_initial_balance |-> 0],
     agent_registered |-> FALSE, prompt_price |-> 0, creator |-> ZeroAddress,
     pending_prompts |-> [p \in PromptIdRange |-> NoPending],
     next_prompt_id |-> 0,
     balances |-> [a \in Accounts |-> IF a \in {Creator1, User1} THEN StartBalance ELSE 0],
     block_timestamp |-> 0]

ContractInit ==
    /\ contracts = Constructed
    /\ lastTx = NoTx
    /\ settled = [p \in PromptIdRange |-> 0]
    /\ paidIds = << >>
    /\ txCount = 0

(***************************************************************************)
(* Specifications.                                                         *)
(***************************************************************************)
PipeInit ==
    /\ startingBlock \in 0..MaxStartingBlock
    /\ chain = << >>
    /\ subs = {}
    /\ watcherLast = InitialLastIndexedBlock(startingBlock)
    /\ watcherPc = "poll"
    /\ watcherWindow = [Events |-> << >>, FromBlock |-> 0, ToBlock |-> 0]
    /\ watcherPending = {}
    /\ agentPc = "start"
    /\ agentCh = << >>
    /\ agentInfos = << >>
    /\ agentsByCreator = << >>
    /\ agentLast = InitialLastIndexedBlock(startingBlock)
    /\ tokenPc = "start"
    /\ tokenCh = << >>
    /\ tokens = << >>
    /\ tokenLast = InitialLastIndexedBlock(startingBlock)
    /\ balancePc = "start"
    /\ balanceCh = << >>
    /\ balances = << >>
    /\ balanceLast = InitialLastIndexedBlock(startingBlock)
    /\ fetched = {}
    /\ agentApplied = {}
    /\ tokenApplied = {}
    /\ agentPrev = [infos |-> << >>, byCreator |-> << >>, batch |-> << >>]
    /\ tokenPrev = [tokens |-> << >>, batch |-> << >>]
    /\ windowSubs = {}
    /\ sentNow = << >>
    /\ rpcFailures = 0
    /\ firstFrom = -1
    /\ dbMu = "free"
    /\ pricePc = "wait"
    /\ priceTicks = 0
    /\ priceSnap = << >>
    /\ priceTodo = {}
    /\ priceRead = << >>
    /\ priceFailed = {}
    /\ priceStored = << >>
    /\ rateStored = {}
    /\ lastTokenEvent = << >>
    /\ removedRated = {}
    /\ agentsMu = "free"
    /\ fetchPc = "idle"
    /\ fetchCall = NoFetchCall
    /\ fetchSeen = NoSeen
    /\ fetchRpc = NoRpc
    /\ fetchResult = [err |-> TRUE]
    /\ queryCall = NoQuery
    /\ querySeen = [agents |-> << >>, infos |-> << >>, last |-> 0]
    /\ queryResult = NotFound
    /\ getPc = "idle"
    /\ getAddr = ZeroAddress
    /\ getRead = NoReads
    /\ getResp = NoResponse
    /\ listPc = "idle"
    /\ listCall = [kind |-> "none", page |-> 0, user |-> ZeroAddress]
    /\ listPage = EmptyPage
    /\ listIdx = 1
    /\ listOut = << >>
    /\ listLog = << >>
    /\ listResp = NoResponse
    /\ parentCtx = "live"
    /\ groupCtx = "live"
    /\ groupErr = NoError
    /\ taskErr = [t \in Tasks |-> Running]
    /\ returnLog = << >>
    /\ runResult = Running

Init == UsageInit /\ PipeInit /\ ContractInit

\* the usage database under arbitrary calls
UsageSpecInit == Init /\ startingBlock = MaxStartingBlock

SpecUsage == UsageSpecInit /\ [][UsageNext]_vars

\* chain -> watcher -> AgentIndexer and TokenIndexer
Next ==
    \/ MineBlock(RegistryKindEvents)
    \/ WatcherFetch
    \/ \E s \in {"agent", "tokenAdded", "tokenRemoved"} : WatcherSend(s)
    \/ WatcherCommit
    \/ AgentIndexerStart
    \/ AgentIndexerApply
    \/ TokenIndexerStart
    \/ TokenIndexerApply

Spec == Init /\ [][Next]_vars

\* chain -> watcher -> AgentIndexer and AgentBalanceIndexer
BalanceNext ==
    \/ MineBlock(BalanceKindEvents)
    \/ WatcherFetch
    \/ \E s \in {"agent", "balanceAgent", "balanceTransfer"} : WatcherSend(s)
    \/ WatcherCommit
    \/ AgentIndexerStart
    \/ AgentIndexerApply
    \/ AgentBalanceIndexerStart
    \/ AgentBalanceIndexerApply

SpecBalance == Init /\ [][BalanceNext]_vars

\* the same pipeline with failing chain requests, under the scheduling of
\* the goroutines: every loop that can take a step eventually takes one
WatcherNext ==
    \/ MineBlock(WatcherKindEvents)
    \/ WatcherFetch
    \/ WatcherFetchFail
    \/ \E s \in {"agent", "balanceAgent", "balanceTransfer"} : WatcherSend(s)
    \/ WatcherCommit
    \/ AgentIndexerStart
    \/ AgentIndexerApply
    \/ AgentBalanceIndexerStart
    \/ AgentBalanceIndexerApply

WatcherFairness ==
    /\ WF_vars(WatcherFetch)
    /\ WF_vars(\E s \in {"agent", "balanceAgent", "balanceTransfer"} : WatcherSend(s))
    /\ WF_vars(WatcherCommit)
    /\ WF_vars(AgentIndexerApply)
    /\ WF_vars(AgentBalanceIndexerApply)

SpecWatcher == Init /\ [][WatcherNext]_vars /\ WatcherFairness

\* chain -> watcher -> TokenIndexer, next to the price refresh task
TokenNext ==
    \/ MineBlock(TokenKindEvents)
    \/ WatcherFetch
    \/ \E s \in {"tokenAdded", "tokenRemoved"} : WatcherSend(s)
    \/ WatcherCommit
    \/ TokenIndexerStart
    \/ TokenIndexerApply
    \/ PriceTick
    \/ PriceGetTokens
    \/ \E t \in {Token1} : PriceGetRate(t)
    \/ PriceLock
    \/ PriceStore

SpecToken == Init /\ [][TokenNext]_vars

\* chain -> watcher -> AgentIndexer, next to a caller of GetOrFetchAgentInfo
FetchNext ==
    \/ MineBlock(AgentKindEvents)
    \/ WatcherFetch
    \/ \E s \in {"agent"} : WatcherSend(s)
    \/ WatcherCommit
    \/ AgentIndexerStart
    \/ AgentIndexerApply
    \/ \E addr \in Addr, block \in 0..MaxBlock : FetchBegin(addr, block)
    \/ FetchReturn

SpecFetch == Init /\ [][FetchNext]_vars

\* chain -> watcher -> AgentIndexer, next to a caller of GetAgentsByCreator
QueryNext ==
    \/ MineBlock(AgentKindEvents)
    \/ WatcherFetch
    \/ \E s \in {"agent"} : WatcherSend(s)
    \/ WatcherCommit
    \/ AgentIndexerStart
    \/ AgentIndexerApply
    \/ \E creator \in {Creator1, User1}, start \in 0..MaxUint, limit \in 0..MaxUint :
          AgentsByCreatorCall(creator, start, limit)

SpecQuery == Init /\ [][QueryNext]_vars

\* the agent, balance and usage projections filling up next to a request
\* GET /agent/:address
AgentPageNext ==
    \/ MineBlock(OneAgentEvents)
    \/ WatcherFetch
    \/ \E s \in {"agent", "balanceAgent", "balanceTransfer"} : WatcherSend(s)
    \/ WatcherCommit
    \/ AgentIndexerStart
    \/ AgentIndexerApply
    \/ AgentBalanceIndexerStart
    \/ AgentBalanceIndexerApply
    \/ \E a \in {Agent1} : StoreAgent(a)
    \/ \E a \in {Agent1} : HandleGetAgentBalance(a)
    \/ HandleGetAgentInfo
    \/ HandleGetAgentUsage

SpecAgentPage == Init /\ [][AgentPageNext]_vars

\* the projections filling up next to a request of a bulk handler
\* the request not yet answered; the behaviour ends with the response
Unanswered == listPc # "done"

AgentListNext ==
    \/ Unanswered /\ MineBlock(AgentKindEvents)
    \/ Unanswered /\ WatcherFetch
    \/ \E s \in {"agent", "balanceAgent", "balanceTransfer"} : Unanswered /\ WatcherSend(s)
    \/ Unanswered /\ WatcherCommit
    \/ Unanswered /\ AgentIndexerStart
    \/ Unanswered /\ AgentIndexerApply
    \/ Unanswered /\ AgentBalanceIndexerStart
    \/ Unanswered /\ AgentBalanceIndexerApply
    \/ \E a \in {Agent1} : a \notin DOMAIN usages /\ Unanswered /\ StoreAgent(a)
    \/ \E page \in 0..MaxPage : HandleGetLeaderboardBegin(page)
    \/ \E page \in 0..MaxPage : HandleGetUserAgentsBegin(Creator1, page)
    \/ HandleListAgent
    \/ HandleListRespond

\* the service configured to start at block 1
\* the registration of an agent, and a registration of the same address that
\* names another creator, name and price
AgentRegisteredAgain(from, a) ==
    [AgentRegisteredEvent(from, a) EXCEPT !.Creator = User1, !.Name = "carol",
                                          !.PromptPrice = 200]
ReregisterEvents ==
    {AgentRegisteredEvent(Registry, Agent1), AgentRegisteredAgain(Registry, Agent1)}

\* chain -> watcher -> AgentIndexer, the registry free to announce an address twice
ReregisterNext ==
    \/ MineBlockUnchecked(ReregisterEvents)
    \/ WatcherFetch
    \/ \E s \in {"agent"} : WatcherSend(s)
    \/ WatcherCommit
    \/ AgentIndexerStart
    \/ AgentIndexerApply

SpecReregister == Init /\ [][ReregisterNext]_vars

(***************************************************************************)
(* The transactions sent to the contracts.                                 *)
(***************************************************************************)
\* the amount a settling call took out of the escrow of prompt_id
PaidOut(fn, r, c, arg) ==
    IF fn \in {"consume_prompt", "reclaim_prompt"} /\ r.ok
          /\ c.pending_prompts[arg[1]].amount > 0
    THEN 1 ELSE 0

\* a transaction: the storage changes only when the call succeeded
Transact(fn, caller, arg, r) ==
    /\ txCount < MaxTx
    /\ txCount' = txCount + 1
    /\ contracts' = IF r.ok THEN r.c ELSE contracts
    /\ lastTx' = [fn |-> fn, caller |-> caller, arg |-> arg, ok |-> r.ok, ret |-> r.ret,
                  moved |-> r.moved]
    /\ settled' = IF fn \in {"consume_prompt", "reclaim_prompt"}
                  THEN [settled EXCEPT ![arg[1]] = @ + PaidOut(fn, r, contracts, arg)]
                  ELSE settled
    /\ paidIds' = IF fn = "pay_for_prompt" /\ r.ok THEN Append(paidIds, r.ret) ELSE paidIds
    /\ UNCHANGED <<usages, promptCache, now, calls, consumedLog, paidLog, lastCall,
                   lockVars, pipeVars>>

\* the model deploys one agent
register_agent(caller, prompt_price, initial_balance) ==
    /\ ~contracts.agent_registered
    /\ Transact("register_agent", caller, <<prompt_price, initial_balance>>,
                Registry_register_agent(contracts, caller, prompt_price, initial_balance))

pause(caller) == Transact("pause", caller, << >>, Registry_pause(contracts, caller))

unpause(caller) == Transact("unpause", caller, << >>, Registry_unpause(contracts, caller))

add_supported_token(caller, min_prompt_price, min_initial_balance) ==
    Transact("add_supported_token", caller, <<min_prompt_price, min_initial_balance>>,
             Registry_add_supported_token(contracts, caller, min_prompt_price,
                                          min_initial_balance))

remove_supported_token(caller) ==
    Transact("remove_supported_token", caller, << >>,
             Registry_remove_supported_token(contracts, caller))

\* transfer sent to the registry, or to the agent itself
transfer(caller, recipient, direct) ==
    Transact("transfer", caller, <<recipient, direct>>,
             IF direct THEN Agent_transfer(contracts, caller, recipient)
             ELSE Registry_transfer(contracts, caller, recipient))

\* consume_prompt sent to the registry, or to the agent itself
consume_prompt(caller, prompt_id, direct) ==
    Transact("consume_prompt", caller, <<prompt_id, direct>>,
             IF direct THEN Agent_consume_prompt(contracts, caller, prompt_id)
             ELSE Registry_consume_prompt(contracts, caller, prompt_id))

pay_for_prompt(caller) ==
    /\ contracts.next_prompt_id <= MaxPromptId
    /\ Transact("pay_for_prompt", caller, << >>, Agent_pay_for_prompt(contracts, caller))

reclaim_prompt(caller, prompt_id, zeroOk) ==
    Transact("reclaim_prompt", caller, <<prompt_id>>,
             Agent_reclaim_prompt(contracts, caller, prompt_id, zeroOk))

\* a block with a later timestamp
AdvanceTime ==
    /\ contracts.block_timestamp + TimeStep <= MaxBlockTime
    /\ contracts' = [contracts EXCEPT !.block_timestamp = @ + TimeStep]
    /\ UNCHANGED <<usages, promptCache, now, calls, consumedLog, paidLog, lastCall,
                   lockVars, lastTx, settled, paidIds, txCount, pipeVars>>

\* the registry from its construction
RegistryNext ==
    \/ \E caller \in {Owner, User1}, mp \in {0, 10} : add_supported_token(caller, mp, 10)
    \/ \E caller \in {Owner, User1} : remove_supported_token(caller)
    \/ \E caller \in {Owner, User1} : pause(caller)
    \/ \E caller \in {Owner, User1} : unpause(caller)
    \/ \E caller \in {Creator1}, price \in PromptPrices, initial \in {5, 10} :
          register_agent(caller, price, initial)
    \/ \E caller \in {User1} : pay_for_prompt(caller)
    \/ \E caller \in {Tee, Owner, User1}, direct \in BOOLEAN :
          consume_prompt(caller, 1, direct)
    \/ \E caller \in {Tee, Owner, User1}, direct \in BOOLEAN :
          transfer(caller, User1, direct)

RegistryInit == Init /\ startingBlock = 1

SpecRegistry == RegistryInit /\ [][RegistryNext]_vars

\* an agent registered for a supported token, the registry not paused
Registered(price) ==
    [Constructed EXCEPT
        !.token_params = [min_prompt_price |-> 10, min_initial_balance |-> 10],
        !.agent_registered = TRUE, !.prompt_price = price, !.creator = Creator1,
        !.next_prompt_id = 1,
        !.balances = Moved(Constructed, Creator1, Agent1, 10).balances]

EscrowInit ==
    /\ UsageInit /\ PipeInit /\ startingBlock = 1
    /\ contracts \in {Registered(price) : price \in EscrowPrices}
    /\ lastTx = NoTx
    /\ settled = [p \in PromptIdRange |-> 0]
    /\ paidIds = << >>
    /\ txCount = 0

\* the escrow of a registered agent
EscrowNext ==
    \/ \E caller \in {User1, Creator1} : pay_for_prompt(caller)
    \/ \E caller \in {User1, Creator1}, p \in PromptIdRange, zeroOk \in BOOLEAN :
          reclaim_prompt(caller, p, zeroOk)
    \/ \E caller \in {Tee, User1}, p \in PromptIdRange, direct \in BOOLEAN :
          consume_prompt(caller, p, direct)
    \/ AdvanceTime

SpecEscrow == EscrowInit /\ [][EscrowNext]_vars

\* the escrow starts in a state the registry reaches
RegisteredReached == \E price \in EscrowPrices : contracts = Registered(price)

\* get_prompt_count: next_prompt_id - 1
get_prompt_count(c) == c.next_prompt_id - 1

\* the transaction t is a consume_prompt or a reclaim_prompt of p
Settling(t, p) == t.fn \in {"consume_prompt", "reclaim_prompt"} /\ t.arg[1] = p

\* what a consume_prompt or reclaim_prompt of p does to the entry of p
SettleStep(p) ==
    LET t == lastTx'
        before == contracts.pending_prompts[p]
    IN  (txCount' = txCount + 1 /\ Settling(t, p)) =>
            /\ t.ok => contracts'.pending_prompts[p] = NoPending
            /\ (before = NoPending /\ t.fn = "consume_prompt") => ~t.ok
            /\ (before = NoPending /\ t.fn = "reclaim_prompt") =>
                    contracts'.balances = contracts.balances

\* C36: the escrow of a paid prompt is settled at most once: for every
\* prompt id at most one consume_prompt or reclaim_prompt pays the pending
\* amount out; a successful one clears the entry, after which consume_prompt
\* fails and reclaim_prompt moves no tokens
C36_SettledAtMostOnce ==
    /\ [](\A p \in PromptIdRange : settled[p] <= 1)
    /\ [][\A p \in PromptIdRange : SettleStep(p)]_vars

\* a prompt was settled and a later reclaim of it went through with nothing to pay
C36_Witness ==
    /\ lastTx.fn = "reclaim_prompt" /\ lastTx.ok
    /\ settled[lastTx.arg[1]] = 1
    /\ lastTx.ret.amount = 0
    /\ contracts.pending_prompts[lastTx.arg[1]] = NoPending

\* what a successful pay_for_prompt does to the pending entries
PayStep ==
    LET t == lastTx'
    IN  (txCount' = txCount + 1 /\ t.fn = "pay_for_prompt" /\ t.ok) =>
            /\ t.ret = Len(paidIds) + 1
            /\ contracts'.pending_prompts[t.ret] =
                    [reclaimer |-> t.caller, amount |-> contracts.prompt_price,
                     timestamp |-> contracts.block_timestamp]
            /\ \A p \in PromptIdRange \ {t.ret} :
                    contracts'.pending_prompts[p] = contracts.pending_prompts[p]

\* C37: prompt ids are unique: the successful pay_for_prompt calls return
\* 1, 2, 3, ... without reuse or gap, each writes the entry {caller, price,
\* block time} under its id and leaves the other entries, and
\* get_prompt_count is the number of successful payments
C37_PromptIdsUnique ==
    /\ [](/\ \A i \in 1..Len(paidIds) : paidIds[i] = i
          /\ get_prompt_count(contracts) = Len(paidIds))
    /\ [][PayStep]_vars

\* two payments made, the first entry still as the first payment wrote it
C37_Witness ==
    /\ Len(paidIds) = 2
    /\ lastTx.fn = "pay_for_prompt" /\ lastTx.ok /\ lastTx.ret = 2
    /\ contracts.pending_prompts[1].reclaimer # ZeroAddress
    /\ contracts.pending_prompts[2].timestamp > contracts.pending_prompts[1].timestamp

\* what a successful consume_prompt pays
SplitStep ==
    LET t == lastTx'
        amount == contracts.pending_prompts[t.arg[1]].amount
        creator_fee  == (amount * 2000) \div 10000
        protocol_fee == (amount * 1000) \div 10000
    IN  (txCount' = txCount + 1 /\ t.fn = "consume_prompt" /\ t.ok) =>
            /\ t.ret.creator_fee = creator_fee
            /\ t.ret.protocol_fee = protocol_fee
            /\ t.ret.amount = amount - creator_fee - protocol_fee
            /\ t.ret.amount + t.ret.creator_fee + t.ret.protocol_fee = amount
            /\ 10 * t.ret.amount >= 7 * amount
            /\ t.moved = <<[from |-> Agent1, to |-> contracts.creator, amount |-> creator_fee],
                           [from |-> Agent1, to |-> Registry, amount |-> protocol_fee]>>
            /\ contracts.balances[Agent1] - contracts'.balances[Agent1]
                    = creator_fee + protocol_fee
            /\ creator_fee + protocol_fee <= amount

\* C38: consume_prompt splits the pending amount without making or losing
\* tokens: the creator gets floor(amount * 2000 / 10000), the registry
\* floor(amount * 1000 / 10000), the agent amount is the rest, which is at
\* least 70% of the amount, and no more than the amount leaves the agent
C38_FeeSplitConserves == [][SplitStep]_vars

\* a prompt whose fees are rounded down was consumed
C38_Witness ==
    /\ lastTx.fn = "consume_prompt" /\ lastTx.ok
    /\ lastTx.ret.creator_fee > 0
    /\ 10 * lastTx.ret.amount > 7 * (lastTx.ret.amount + lastTx.ret.creator_fee
                                        + lastTx.ret.protocol_fee)

\* what a reclaim_prompt of a pending prompt does
ReclaimStep ==
    LET t == lastTx'
        pending == contracts.pending_prompts[t.arg[1]]
        due == pending.timestamp + RECLAIM_DELAY
    IN  (txCount' = txCount + 1 /\ t.fn = "reclaim_prompt"
            /\ pending.reclaimer # ZeroAddress) =>
            /\ t.ok => contracts.block_timestamp >= due
            /\ contracts.block_timestamp < due => ~t.ok /\ contracts' = contracts
            /\ t.ok =>
                /\ t.moved = <<[from |-> Agent1, to |-> pending.reclaimer,
                                amount |-> pending.amount]>>
                /\ contracts'.balances[pending.reclaimer]
                       = contracts.balances[pending.reclaimer] + pending.amount

\* C39: reclaim_prompt of a pending prompt succeeds only from RECLAIM_DELAY
\* after the payment; earlier it fails and changes nothing; the refund goes
\* to the account that paid, whoever calls
C39_ReclaimAfterDelay == [][ReclaimStep]_vars

\* a prompt paid after the start was refunded to its payer on another account's call
C39_Witness ==
    /\ lastTx.fn = "reclaim_prompt" /\ lastTx.ok
    /\ lastTx.ret.amount > 0
    /\ lastTx.moved[1].to # lastTx.caller
    /\ contracts.pending_prompts[lastTx.arg[1]] = NoPending
    /\ contracts.block_timestamp > RECLAIM_DELAY

\* what a successful transaction required
GuardedStep ==
    LET t == lastTx'
        c == contracts
    IN  (txCount' = txCount + 1 /\ t.ok) =>
            /\ t.fn \in {"consume_prompt", "transfer"} =>
                    ~t.arg[2] /\ t.caller = Tee /\ ~c.paused
            /\ t.fn \in {"register_agent", "pay_for_prompt"} => ~c.paused
            /\ t.fn = "register_agent" =>
                    /\ c.token_params.min_prompt_price # 0
                    /\ t.arg[1] >= c.token_params.min_prompt_price
                    /\ t.arg[2] >= c.token_params.min_initial_balance
            /\ t.fn \in {"pause", "unpause", "add_supported_token",
                          "remove_supported_token"} => t.caller = Owner

\* a failed transaction changes nothing, and tokens leave the agent only
\* in a successful transfer or consume_prompt
UntouchedStep ==
    LET t == lastTx'
    IN  (txCount' = txCount + 1) =>
            /\ ~t.ok => contracts' = contracts
            /\ contracts'.balances[Agent1] < contracts.balances[Agent1] =>
                    t.ok /\ t.fn \in {"transfer", "consume_prompt"}

\* C40: a prompt is consumed and an agent drained only through the registry,
\* on a call of the tee while the registry is not paused; a paused registry
\* lets no register_agent and no pay_for_prompt through; register_agent needs
\* a token with a non-zero min_prompt_price and a price and an initial balance
\* of at least the minimums; pause, unpause and the token list are the owner's
C40_AccessControl == [][GuardedStep /\ UntouchedStep]_vars

\* the tee drained a registered agent through the registry
C40_Witness ==
    /\ lastTx.fn = "transfer" /\ lastTx.ok /\ lastTx.caller = Tee
    /\ lastTx.moved[1].amount > 0
    /\ contracts.balances[Agent1] = 0

(***************************************************************************)
(* AgentUsageIndexerDatabaseInMemory step by step.  The indexer's          *)
(* goroutine makes the Store* and Set* calls one after the other; a query  *)
(* handler calls GetAgentUsage and reads the fields of the *AgentUsage it  *)
(* got; another goroutine calls GetLastIndexedBlock.  A read that races a  *)
(* write sees the field as it is at the instant of the read.               *)
(***************************************************************************)
\* the *AgentUsage the call works on
StoreUsage == IF storeLocal.fresh THEN storeLocal.usage ELSE usages[storeCall.addr]

\* a write through that pointer: into the map's struct unless the struct is fresh
WriteUsage(usage) ==
    IF storeLocal.fresh
    THEN storeLocal' = [storeLocal EXCEPT !.usage = usage] /\ UNCHANGED usages
    ELSE usages' = SetUsage(usages, storeCall.addr, usage) /\ UNCHANGED storeLocal

\* StorePromptConsumedData: db.mu.Lock(); usage := db.getOrCreateAgentUsage(addr)
ConsumedLock(addr, promptId, drainedTo) ==
    /\ storePc = "idle"
    /\ usageMu = "free"
    /\ calls < MaxCalls
    /\ usageMu' = "w"
    /\ storePc' = "inc"
    /\ storeCall' = [NoStore EXCEPT !.addr = addr, !.promptId = promptId,
                                    !.drainedTo = drainedTo]
    /\ storeLocal' = [NoLocal EXCEPT !.fresh = addr \notin DOMAIN usages]
    /\ UNCHANGED <<usages, promptCache, now, calls, consumedLog, paidLog, lastCall,
                   usageLast, readPc, readOp, readSnap, getLastPc, contractVars, pipeVars>>

\* usage.BreakAttempts++
ConsumedIncrement ==
    /\ storePc = "inc"
    /\ WriteUsage([StoreUsage EXCEPT !.BreakAttempts = @ + 1])
    /\ storePc' = "peek"
    /\ UNCHANGED <<promptCache, now, calls, consumedLog, paidLog, lastCall, usageMu,
                   usageLast, storeCall, readPc, readOp, readSnap, getLastPc, contractVars, pipeVars>>

\* db.promptCache.Peek(promptCacheKey), Remove on a hit
ConsumedPeek ==
    /\ storePc = "peek"
    /\ LET addr  == storeCall.addr
           key   == promptCacheKey(addr, storeCall.promptId)
           found == CachePeek(promptCache, key, now)
       IN  /\ promptCache' = IF found.ok THEN CacheRemove(promptCache, key) ELSE promptCache
           /\ storeLocal' = [storeLocal EXCEPT !.entry =
                                [PromptID  |-> storeCall.promptId,
                                 TweetID   |-> found.data.TweetID,
                                 Prompt    |-> found.data.Prompt,
                                 IsSuccess |-> Succeeded(storeCall.drainedTo, addr),
                                 DrainedTo |-> DrainAddress(storeCall.drainedTo, addr)]]
           /\ paidLog' = [paidLog EXCEPT ![<<addr, storeCall.promptId>>] = NoPaid]
    /\ storePc' = "drain"
    /\ UNCHANGED <<usages, now, calls, consumedLog, lastCall, usageMu, usageLast, storeCall,
                   readPc, readOp, readSnap, getLastPc, contractVars, pipeVars>>

\* if succeeded { usage.IsDrained = true }
ConsumedDrain ==
    /\ storePc = "drain"
    /\ IF storeLocal.entry.IsSuccess
       THEN WriteUsage([StoreUsage EXCEPT !.IsDrained = TRUE])
       ELSE UNCHANGED <<usages, storeLocal>>
    /\ storePc' = "append"
    /\ UNCHANGED <<promptCache, now, calls, consumedLog, paidLog, lastCall, usageMu,
                   usageLast, storeCall, readPc, readOp, readSnap, getLastPc, contractVars, pipeVars>>

\* usage.LatestPrompts = append(usage.LatestPrompts, ...)
ConsumedAppend ==
    /\ storePc = "append"
    /\ WriteUsage([StoreUsage EXCEPT !.LatestPrompts = Append(@, storeLocal.entry)])
    /\ storePc' = "trim"
    /\ UNCHANGED <<promptCache, now, calls, consumedLog, paidLog, lastCall, usageMu,
                   usageLast, storeCall, readPc, readOp, readSnap, getLastPc, contractVars, pipeVars>>

\* if uint64(len(usage.LatestPrompts)) > db.maxPrompts { ... = usage.LatestPrompts[1:] }
ConsumedTrim ==
    /\ storePc = "trim"
    /\ IF Len(StoreUsage.LatestPrompts) > maxPrompts
       THEN WriteUsage([StoreUsage EXCEPT !.LatestPrompts = Tail(@)])
       ELSE UNCHANGED <<usages, storeLocal>>
    /\ storePc' = "store"
    /\ UNCHANGED <<promptCache, now, calls, consumedLog, paidLog, lastCall, usageMu,
                   usageLast, storeCall, readPc, readOp, readSnap, getLastPc, contractVars, pipeVars>>

\* db.usages[addr] = usage, then the deferred db.mu.Unlock()
ConsumedStore ==
    /\ storePc = "store"
    /\ usages' = SetUsage(usages, storeCall.addr, StoreUsage)
    /\ consumedLog' = [consumedLog EXCEPT ![storeCall.addr] = Append(@, storeCall.promptId)]
    /\ calls' = calls + 1
    /\ usageMu' = "free"
    /\ storePc' = "idle"
    /\ storeCall' = NoStore
    /\ storeLocal' = NoLocal
    /\ UNCHANGED <<promptCache, now, paidLog, lastCall, usageLast, readPc, readOp, readSnap,
                   getLastPc, contractVars, pipeVars>>

\* StoreAgent: db.mu.Lock()
StoreAgentLock(addr) ==
    /\ storePc = "idle"
    /\ usageMu = "free"
    /\ calls < MaxCalls
    /\ usageMu' = "w"
    /\ storePc' = "agent"
    /\ storeCall' = [NoStore EXCEPT !.addr = addr]
    /\ UNCHANGED <<usages, promptCache, now, calls, consumedLog, paidLog, lastCall,
                   usageLast, storeLocal, readPc, readOp, readSnap, getLastPc, contractVars, pipeVars>>

\* StoreAgent: db.usages[addr] = db.getOrCreateAgentUsage(addr), then Unlock
StoreAgentStore ==
    /\ storePc = "agent"
    /\ usages' = SetUsage(usages, storeCall.addr,
                          getOrCreateAgentUsage(usages, storeCall.addr))
    /\ calls' = calls + 1
    /\ usageMu' = "free"
    /\ storePc' = "idle"
    /\ storeCall' = NoStore
    /\ UNCHANGED <<promptCache, now, consumedLog, paidLog, lastCall, usageLast, storeLocal,
                   readPc, readOp, readSnap, getLastPc, contractVars, pipeVars>>

\* SetLastIndexedBlock: db.mu.Lock()
SetLastIndexedBlockLock(block) ==
    /\ storePc = "idle"
    /\ usageMu = "free"
    /\ block > usageLast
    /\ usageMu' = "w"
    /\ storePc' = "setLast"
    /\ storeCall' = [NoStore EXCEPT !.block = block]
    /\ UNCHANGED <<usages, promptCache, now, calls, consumedLog, paidLog, lastCall,
                   usageLast, storeLocal, readPc, readOp, readSnap, getLastPc, contractVars, pipeVars>>

\* SetLastIndexedBlock: db.lastIndexedBlock = block, then Unlock
SetLastIndexedBlockWrite ==
    /\ storePc = "setLast"
    /\ usageLast' = storeCall.block
    /\ usageMu' = "free"
    /\ storePc' = "idle"
    /\ storeCall' = NoStore
    /\ UNCHANGED <<usages, promptCache, now, calls, consumedLog, paidLog, lastCall,
                   storeLocal, readPc, readOp, readSnap, getLastPc, contractVars, pipeVars>>

\* GetAgentUsage / GetAgentExists: db.mu.RLock()
ReaderLock(op) ==
    /\ readPc = "idle"
    /\ usageMu = "free"
    /\ usageMu' = "r"
    /\ readPc' = "rlocked"
    /\ readOp' = op
    /\ UNCHANGED <<usages, promptCache, now, calls, consumedLog, paidLog, lastCall,
                   usageLast, storePc, storeCall, storeLocal, readSnap, getLastPc, contractVars, pipeVars>>

\* usage, ok := db.usages[addr]; RUnlock; GetAgentUsage returns the pointer
ReaderReturn(addr) ==
    /\ readPc = "rlocked"
    /\ usageMu' = "free"
    /\ IF readOp = "GetAgentUsage"
       THEN LET r == GetAgentUsage(usages, addr)
            IN  /\ readSnap' = [NoSnap EXCEPT !.ok = r.ok]
                /\ readPc' = IF r.ok THEN "prompts" ELSE "done"
       ELSE readPc' = "idle" /\ UNCHANGED readSnap
    /\ UNCHANGED <<usages, promptCache, now, calls, consumedLog, paidLog, lastCall,
                   usageLast, storePc, storeCall, storeLocal, readOp, getLastPc, contractVars, pipeVars>>

\* HandleGetAgent: for _, prompt := range usage.LatestPrompts
ReadLatestPrompts(addr) ==
    /\ readPc = "prompts"
    /\ readSnap' = [readSnap EXCEPT !.LatestPrompts = usages[addr].LatestPrompts]
    /\ readPc' = "drained"
    /\ UNCHANGED <<usages, promptCache, now, calls, consumedLog, paidLog, lastCall, usageMu,
                   usageLast, storePc, storeCall, storeLocal, readOp, getLastPc, contractVars, pipeVars>>

\* HandleGetAgent: IsDrained: usage.IsDrained
ReadIsDrained(addr) ==
    /\ readPc = "drained"
    /\ readSnap' = [readSnap EXCEPT !.IsDrained = usages[addr].IsDrained]
    /\ readPc' = "attempts"
    /\ UNCHANGED <<usages, promptCache, now, calls, consumedLog, paidLog, lastCall, usageMu,
                   usageLast, storePc, storeCall, storeLocal, readOp, getLastPc, contractVars, pipeVars>>

\* HandleGetAgent: BreakAttempts: strconv.FormatUint(usage.BreakAttempts, 10)
ReadBreakAttempts(addr) ==
    /\ readPc = "attempts"
    /\ readSnap' = [readSnap EXCEPT !.BreakAttempts = usages[addr].BreakAttempts]
    /\ readPc' = "done"
    /\ UNCHANGED <<usages, promptCache, now, calls, consumedLog, paidLog, lastCall, usageMu,
                   usageLast, storePc, storeCall, storeLocal, readOp, getLastPc, contractVars, pipeVars>>

\* GetLastIndexedBlock: the read of db.lastIndexedBlock begins; no lock is taken
GetLastIndexedBlockBegin ==
    /\ getLastPc = "idle"
    /\ getLastPc' = "reading"
    /\ UNCHANGED <<usages, promptCache, now, calls, consumedLog, paidLog, lastCall, usageMu,
                   usageLast, storePc, storeCall, storeLocal, readPc, readOp, readSnap,
                   contractVars, pipeVars>>

\* GetLastIndexedBlock returns
GetLastIndexedBlockReturn ==
    /\ getLastPc = "reading"
    /\ getLastPc' = "idle"
    /\ UNCHANGED <<usages, promptCache, now, calls, consumedLog, paidLog, lastCall, usageMu,
                   usageLast, storePc, storeCall, storeLocal, readPc, readOp, readSnap,
                   contractVars, pipeVars>>

\* the usage database of one agent under its writer and its readers
UsageLockNext ==
    \/ \E p \in PromptIds : ConsumedLock(Agent1, p, Agent1)
    \/ ConsumedIncrement
    \/ ConsumedPeek
    \/ ConsumedDrain
    \/ ConsumedAppend
    \/ ConsumedTrim
    \/ ConsumedStore
    \/ StoreAgentLock(Agent1)
    \/ StoreAgentStore
    \/ \E block \in 1..MaxBlock : SetLastIndexedBlockLock(block)
    \/ SetLastIndexedBlockWrite
    \/ \E op \in {"GetAgentUsage", "GetAgentExists"} : ReaderLock(op)
    \/ ReaderReturn(Agent1)
    \/ ReadLatestPrompts(Agent1)
    \/ ReadIsDrained(Agent1)
    \/ ReadBreakAttempts(Agent1)
    \/ GetLastIndexedBlockBegin
    \/ GetLastIndexedBlockReturn

SpecUsageLock == UsageSpecInit /\ [][UsageLockNext]_vars

\* one registration, and failed attempts announced by a registered and by a
\* never registered address
UsageKindEvents ==
    {AgentRegisteredEvent(Registry, Agent1)}
        \cup {PromptConsumedEvent(a, 1, a) : a \in Addr}

\* the PromptConsumed events of address a in the blocks the watcher has indexed
ConsumedOnChain(a) ==
    SelectSeq(Flatten(chain),
              LAMBDA e : e.Type = "PromptConsumed" /\ e.FromAddress = a
                           /\ e.BlockNumber <= watcherLast)

\* AgentUsageIndexer on AgentRegistered of the registry: the agent gets its entry
UsageOnAgentRegistered(e) ==
    /\ e.Type = "AgentRegistered"
    /\ e.FromAddress = Registry
    /\ e.BlockNumber <= watcherLast
    /\ StoreAgent(e.Agent)

\* AgentUsageIndexer on PromptConsumed: the attempt is stored under the address
\* that announced it, each event once
UsageOnPromptConsumed(e) ==
    /\ e.Type = "PromptConsumed"
    /\ e.BlockNumber <= watcherLast
    /\ Len(consumedLog[e.FromAddress]) < Len(ConsumedOnChain(e.FromAddress))
    /\ StorePromptConsumedData(e.FromAddress, e.PromptID, e.DrainedTo)

\* chain -> watcher -> AgentIndexer, next to the handlers of the AgentUsageIndexer
UsageOrderNext ==
    \/ MineBlock(UsageKindEvents)
    \/ WatcherFetch
    \/ \E s \in {"agent"} : WatcherSend(s)
    \/ WatcherCommit
    \/ AgentIndexerStart
    \/ AgentIndexerApply
    \/ \E e \in SeqToSet(Flatten(chain)) : UsageOnAgentRegistered(e)
    \/ \E e \in SeqToSet(Flatten(chain)) : UsageOnPromptConsumed(e)

SpecUsageOrder == Init /\ [][UsageOrderNext]_vars

ListSpecInit == Init /\ startingBlock = 1

SpecAgentList == ListSpecInit /\ [][AgentListNext]_vars

\* UIService.Run and its six tasks
SuperviseNext ==
    \/ ParentCancel
    \/ AgentIndexerStart
    \/ AgentBalanceIndexerStart
    \/ TokenIndexerStart
    \/ WatcherReturn
    \/ AgentIndexerReturn
    \/ TokenRunReturn
    \/ PriceTaskReturn
    \/ TokenIndexerReturn
    \/ \E err \in {Canceled, Failure("agentBalanceIndexer")} : AgentBalanceIndexerReturn(err)
    \/ \E err \in {Canceled, Failure("agentUsageIndexer")} : AgentUsageIndexerReturn(err)
    \/ ServerReturn
    \/ RunReturn

SpecSupervise == ListSpecInit /\ [][SuperviseNext]_vars

\* one registration and one token
CancelKindEvents ==
    {AgentRegisteredEvent(Registry, Agent1), TokenAddedEvent(Registry, Token1)}

\* the watcher, the AgentIndexer and the TokenIndexer under a context the
\* caller of Run may cancel
CancelNext ==
    \/ MineBlock(CancelKindEvents)
    \/ WatcherFetch
    \/ \E s \in {"agent", "tokenAdded", "tokenRemoved"} : WatcherSend(s)
    \/ WatcherCommit
    \/ AgentIndexerStart
    \/ AgentIndexerApply
    \/ TokenIndexerStart
    \/ TokenIndexerApply
    \/ priceTicks = 0 /\ PriceTick
    \/ PriceGetTokens
    \/ \E t \in {Token1} : PriceGetRate(t)
    \/ PriceLock
    \/ PriceStore
    \/ ParentCancel
    \/ AgentIndexerReturn
    \/ TokenRunReturn
    \/ PriceTaskReturn
    \/ TokenIndexerReturn


\* the leaderboard under balance updates and rate updates.  A call changes
\* no projection: one call per behaviour, made in any reachable state, stands
\* for all of them
NoCallYet == listCall.kind = "none"

LeaderboardNext ==
    \/ \E t \in LeaderboardTokens : NoCallYet /\ LeaderboardTokenAdded(t)
    \/ \E t \in LeaderboardTokens, rate \in Rates : NoCallYet /\ LeaderboardRateUpdate(t, rate)
    \/ \E a \in Addr : NoCallYet /\ LeaderboardPushAgent(a)
    \/ \E a \in Addr, t \in LeaderboardTokens, amount \in Amounts, endTime \in EndTimes :
           NoCallYet /\ LeaderboardBalanceUpdate(a, t, amount, endTime)
    \/ \E start \in {0, 1}, end \in {1, 3} : LeaderboardCall(start, end)

SpecLeaderboard == ListSpecInit /\ [][LeaderboardNext]_vars

SpecCancel == ListSpecInit /\ [][CancelNext]_vars

\* chain -> watcher -> TokenIndexer, blocks of up to two token events
TokenOrderNext ==
    \/ MineBlock(TokenKindEvents)
    \/ MineBlockPair(TokenKindEvents)
    \/ WatcherFetch
    \/ \E s \in {"tokenAdded", "tokenRemoved"} : WatcherSend(s)
    \/ WatcherCommit
    \/ TokenIndexerStart
    \/ TokenIndexerApply

SpecTokenOrder == ListSpecInit /\ [][TokenOrderNext]_vars

\* the same tasks with one block on the chain, every task scheduled again
\* and again
ReturnNext ==
    \/ chain = << >> /\ MineBlock(CancelKindEvents)
    \/ WatcherFetch
    \/ \E s \in {"agent", "tokenAdded", "tokenRemoved"} : WatcherSend(s)
    \/ WatcherCommit
    \/ AgentIndexerStart
    \/ AgentIndexerApply
    \/ TokenIndexerStart
    \/ TokenIndexerApply
    \/ priceTicks = 0 /\ PriceTick
    \/ PriceGetTokens
    \/ \E t \in {Token1} : PriceGetRate(t)
    \/ PriceLock
    \/ PriceStore
    \/ ParentCancel
    \/ AgentIndexerReturn
    \/ TokenRunReturn
    \/ PriceTaskReturn
    \/ TokenIndexerReturn

ReturnFairness ==
    /\ WF_vars(AgentIndexerStart)
    /\ WF_vars(AgentIndexerReturn)
    /\ WF_vars(TokenIndexerStart)
    /\ WF_vars(TokenRunReturn)
    /\ WF_vars(PriceGetTokens)
    /\ WF_vars(\E t \in {Token1} : PriceGetRate(t))
    /\ WF_vars(PriceLock)
    /\ WF_vars(PriceStore)
    /\ WF_vars(PriceTaskReturn)
    /\ WF_vars(TokenIndexerReturn)

SpecReturn == ListSpecInit /\ [][ReturnNext]_vars /\ ReturnFairness

(***************************************************************************)
(* Properties of the agent and token projections (Spec, SpecBalance).      *)
(***************************************************************************)
FromRegistry(e) == e.FromAddress = Registry
AllRogue(batch) == \A i \in 1..Len(batch) : ~FromRegistry(batch[i])

\* C1: from one state to the next, the lastIndexedBlock of the AgentIndexer
\* and the one of the TokenIndexer never decrease, whatever batches the
\* watcher delivers and in whatever order the two token subscriptions'
\* messages arrive on their shared channel.
C1_WatermarksNeverDecrease ==
    [][agentLast' >= agentLast /\ tokenLast' >= tokenLast]_vars

\* both watermarks went through two windows up to the last block, and the
\* token indexer took both messages of a window that held a token event
C1_Witness ==
    /\ startingBlock = 1
    /\ agentLast = MaxBlock
    /\ tokenLast = MaxBlock
    /\ tokenCh = << >>
    /\ tokenApplied # {}
    /\ agentApplied # {}

\* C2 as stated: whenever the TokenIndexer's watermark is B, every token
\* event of the registry in a block <= B that the watcher has fetched has
\* been applied to the token set; likewise for the AgentIndexer and the
\* AgentRegistered events of the registry.
C2_WatermarkCoversApplied ==
    /\ \A e \in fetched :
          (e.Type \in {"TokenAdded", "TokenRemoved"} /\ FromRegistry(e)
              /\ e.BlockNumber <= tokenLast)
          => e \in tokenApplied
    /\ \A e \in fetched :
          (e.Type = "AgentRegistered" /\ FromRegistry(e) /\ e.BlockNumber <= agentLast)
          => e \in agentApplied

\* C3 as stated: every agent of the leaderboard is found by GetAgentInfo.
C3_LeaderboardAgentsIndexed ==
    \A a \in LeaderboardAgents : GetAgentInfo(agentInfos, a).ok

\* C10: a batch of events none of which the registry emitted leaves the
\* agent infos, the creator index and the token set as they were; and no
\* agent info or token entry exists that no applied registry event names.
C10_RogueEventsChangeNothing ==
    /\ AllRogue(agentPrev.batch) =>
          (agentInfos = agentPrev.infos /\ agentsByCreator = agentPrev.byCreator)
    /\ AllRogue(tokenPrev.batch) => tokens = tokenPrev.tokens
    /\ \A a \in DOMAIN agentInfos :
          \E e \in agentApplied : FromRegistry(e) /\ e.Agent = a
    /\ \A t \in DOMAIN tokens :
          \E e \in tokenApplied : FromRegistry(e) /\ e.Token = t

\* a rogue AgentRegistered was applied to a projection that holds an agent
C10_Witness ==
    /\ agentPrev.batch # << >> /\ AllRogue(agentPrev.batch)
    /\ agentInfos # << >>

(***************************************************************************)
(* Properties of the watcher (SpecWatcher).                                *)
(***************************************************************************)
KindOnly(evs, kind) == SelectSeq(evs, LAMBDA e : e.Type = kind)
ChannelOf(s) ==
    CASE SubChannel(s) = "agentCh"   -> agentCh
      [] SubChannel(s) = "tokenCh"   -> tokenCh
      [] SubChannel(s) = "balanceCh" -> balanceCh
AllSubs == {"agent", "tokenAdded", "tokenRemoved", "balanceAgent", "balanceTransfer"}

\* every subscription of the window that is no longer pending got one
\* message, holding the window's events of its kind, all of them, once
\* (while a failed request waits for its retry, the messages are those of
\* the window before)
SentOncePerSubscription ==
    /\ DOMAIN sentNow = windowSubs \ watcherPending
    /\ watcherPc # "retry" =>
          \A s \in DOMAIN sentNow :
              /\ Len(sentNow[s]) = 1
              /\ sentNow[s][1].Events = KindOnly(watcherWindow.Events, SubKind(s))
              /\ sentNow[s][1].ToBlock = watcherWindow.ToBlock

\* a send puts its message at the end of the subscriber's channel, which had room
SendReachesChannel ==
    \A s \in AllSubs :
        (s \in DOMAIN sentNow' /\ s \notin DOMAIN sentNow /\ watcherPc = "send")
            => /\ Len(ChannelOf(s)) < ChanCap
               /\ ChannelOf(s)' = Append(ChannelOf(s), sentNow'[s][1])

\* the watermark moves only when no send of the window is left
WatermarkAfterSends ==
    watcherLast' # watcherLast
        => (watcherPending = {} /\ DOMAIN sentNow = windowSubs)

\* C11: every event fetched in a window is delivered exactly once to every
\* channel subscribed to its kind when the window was fetched, also when a
\* channel is full (the send waits, nothing is dropped), and the watcher's
\* watermark does not pass a window before all of its sends are done.
C11_FanOutLosesNothing ==
    /\ []SentOncePerSubscription
    /\ [][SendReachesChannel /\ WatermarkAfterSends]_vars

\* a window holding an event, one copy sent, the next send waiting on the full channel
C11_Witness ==
    /\ watcherPc = "send"
    /\ watcherWindow.Events # << >>
    /\ "balanceAgent" \in DOMAIN sentNow
    /\ sentNow["balanceAgent"][1].Events # << >>
    /\ "balanceTransfer" \in watcherPending
    /\ Len(balanceCh) = ChanCap
    /\ "agent" \in windowSubs

ChannelsUnchanged ==
    /\ agentCh' = agentCh
    /\ tokenCh' = tokenCh
    /\ balanceCh' = balanceCh
    /\ sentNow' = sentNow

\* a failing request changes neither watermark nor channels and leaves the
\* window to be requested again
FailureKeepsWindow ==
    rpcFailures' # rpcFailures =>
        /\ watcherLast' = watcherLast
        /\ ChannelsUnchanged
        /\ watcherPc' = "retry"
        /\ watcherWindow'.FromBlock = watcherLast + 1
        /\ (watcherPc = "retry" =>
               /\ watcherWindow'.FromBlock = watcherWindow.FromBlock
               /\ watcherWindow'.ToBlock = watcherWindow.ToBlock)

\* the request that follows a failure is for the window that failed
RetrySameWindow ==
    (watcherPc = "retry" /\ watcherPc' # "retry") =>
        /\ watcherPc' = "send"
        /\ watcherWindow'.FromBlock = watcherWindow.FromBlock
        /\ watcherWindow'.ToBlock = watcherWindow.ToBlock

\* C13: when the request of a window fails, the watermark is unchanged, no
\* message of the window reaches a subscriber, the same window is requested
\* again, and once a request succeeds the window is delivered to all of
\* its subscribers and the watermark reaches its end.
C13_FailedFetchIsRetried ==
    /\ [][FailureKeepsWindow /\ RetrySameWindow]_vars
    /\ (watcherPc = "retry")
          ~> (/\ watcherPc = "poll"
              /\ watcherLast = watcherWindow.ToBlock
              /\ DOMAIN sentNow = windowSubs)

\* a window whose request failed, later delivered to both indexers and applied
C13_Witness ==
    /\ rpcFailures > 0
    /\ watcherPc = "poll"
    /\ watcherLast = watcherWindow.ToBlock
    /\ watcherWindow.Events # << >>
    /\ agentLast = watcherLast
    /\ agentApplied # {}
    /\ balances # << >>

\* C14 as stated: for every starting block S, S = 0 included, no block
\* before S is fetched and, once the chain has reached S, the watcher
\* fetches the window that begins at S.
C14_IndexingBeginsAtStartingBlock ==
    /\ [](firstFrom = -1 \/ firstFrom = startingBlock)
    /\ [](watcherPc = "send" => watcherWindow.FromBlock >= startingBlock)
    /\ (Len(chain) >= startingBlock) ~> (firstFrom = startingBlock)

(***************************************************************************)
(* Properties of GetOrFetchAgentInfo (SpecFetch).                          *)
(***************************************************************************)
RpcOutstanding == fetchPc = "rpc"

\* C17: while a chain call issued by GetOrFetchAgentInfo / fetchAgentInfo is
\* outstanding the caller does not hold agentsMu, so no AgentRegistered
\* batch waits for the call to finish.
C17_NoLockAcrossRpc == RpcOutstanding => agentsMu = "free"

Returned == fetchPc = "done"

CachedCase   == fetchSeen.cached
NotFoundCase == ~fetchSeen.cached /\ fetchSeen.last >= fetchCall.block
ChainCase    == ~fetchSeen.cached /\ fetchSeen.last < fetchCall.block

Responded == getPc = "done"

ReadMissed(r) == r.read /\ ~r.ok
ReadHit(r)    == r.read /\ r.ok

SomeReadMissed ==
    ReadMissed(getRead.balance) \/ ReadMissed(getRead.info) \/ ReadMissed(getRead.usage)
AllReadsHit ==
    ReadHit(getRead.balance) /\ ReadHit(getRead.info) /\ ReadHit(getRead.usage)

PageFound == listCall.kind = "leaderboard" \/ listPage.AgentCount > 0

ItemAddress(item) == IF listCall.kind = "leaderboard" THEN item ELSE item.Address

RECURSIVE HitAddresses(_)
HitAddresses(log) ==
    IF log = << >> THEN << >>
    ELSE IF log[1].hit THEN <<log[1].addr>> \o HitAddresses(Tail(log))
    ELSE HitAddresses(Tail(log))

AllOmitted == \A i \in 1..Len(listLog) : ~listLog[i].hit

IsFailure(err) == err \notin {Running, NoError, Canceled}

RECURSIVE FirstFailure(_)
\* the first non-cancellation error of the tasks, in the order they returned
FirstFailure(log) ==
    IF log = << >> THEN NoError
    ELSE IF IsFailure(log[1].err) THEN log[1].err
    ELSE FirstFailure(Tail(log))

RECURSIVE FirstError(_)
\* the first non-nil error of the tasks, in the order they returned
FirstError(log) ==
    IF log = << >> THEN NoError
    ELSE IF log[1].err # NoError THEN log[1].err
    ELSE FirstError(Tail(log))

\* what the group does: Run returns the first non-nil error returned, which
\* is the first failure whenever no task returned the cancellation before it
RunReturnsFirstError ==
    runResult # Running =>
        /\ runResult = FirstError(returnLog)
        /\ parentCtx = "live" => runResult = FirstFailure(returnLog)

\* C23: once a task has returned an error the context of the tasks is
\* cancelled, and when Run returns after a task has failed it returns the
\* first non-cancellation error the tasks returned, in any order of failing
\* and of observing the cancellation.
C23_RunReturnsFirstFailure ==
    /\ \A t \in Tasks : taskErr[t] \notin {Running, NoError} => groupCtx = "cancelled"
    /\ (runResult # Running /\ FirstFailure(returnLog) # NoError)
           => runResult = FirstFailure(returnLog)

(***************************************************************************)
(* Properties of the run loops under cancellation (SpecCancel).            *)
(***************************************************************************)
\* a loop that has returned has returned the cancellation, after the
\* context was cancelled
LoopsReturnCancellation ==
    /\ taskErr["agentIndexer"] \in {Running, Canceled}
    /\ taskErr["tokenIndexer"] \in {Running, Canceled}
    /\ (agentPc = "returned" \/ tokenPc = "returned" \/ pricePc = "returned")
           => groupCtx = "cancelled"

\* no step of a loop changes its projection or its watermark, or takes a
\* batch out of its channel
AgentLoopQuiet ==
    /\ agentInfos' = agentInfos
    /\ agentsByCreator' = agentsByCreator
    /\ agentLast' = agentLast
    /\ Len(agentCh') >= Len(agentCh)
TokenLoopQuiet ==
    /\ tokens' = tokens
    /\ tokenLast' = tokenLast
    /\ Len(tokenCh') >= Len(tokenCh)

\* C24: from the moment the context is cancelled the run loops of the
\* AgentIndexer and of the TokenIndexer (event loop and price task) apply no
\* batch still waiting in their channels and leave projection and watermark
\* as they were at the cancellation, and a loop that returns returns the
\* cancellation.
C24_NoEffectAfterCancel ==
    [][groupCtx = "cancelled" =>
          /\ AgentLoopQuiet
          /\ TokenLoopQuiet
          /\ taskErr'["agentIndexer"] \in {Running, Canceled}
          /\ taskErr'["tokenIndexer"] \in {Running, Canceled}]_vars

(***************************************************************************)
(* Properties of the indexers' Run after a cancellation (SpecReturn).      *)
(***************************************************************************)
AgentRunReturned == taskErr["agentIndexer"] # Running
TokenRunReturned ==
    /\ taskErr["tokenIndexer"] # Running
    /\ tokenPc = "returned"
    /\ pricePc = "returned"

KnownRate(a) == balances[a].Token \in DOMAIN tokens /\ tokens[balances[a].Token].RateTime # 0
Usd(a) == IF KnownRate(a) THEN balances[a].Amount * tokens[balances[a].Token].Rate ELSE 0

\* a comes before b: a known rate before an unknown one, then the larger
\* usdValue, then the smaller endTime, then the smaller address
ComesBefore(a, b) ==
    \/ KnownRate(a) /\ ~KnownRate(b)
    \/ /\ KnownRate(a) = KnownRate(b)
       /\ \/ Usd(a) > Usd(b)
          \/ /\ Usd(a) = Usd(b)
             /\ \/ balances[a].EndTime < balances[b].EndTime
                \/ balances[a].EndTime = balances[b].EndTime /\ BytesLess(a, b)

\* the snapshot just returned is the slice [start, end) of the rows in that
\* order
SnapshotInOrder(call, page) ==
    LET n  == Cardinality(DOMAIN balances)
        lo == IF call.start < n THEN call.start ELSE n
        hi == IF call.end < n THEN call.end ELSE n
    IN  /\ page.AgentCount = n
        /\ Len(page.items) = (IF lo < hi THEN hi - lo ELSE 0)
        /\ \A i \in 1..Len(page.items) :
              /\ page.items[i] \in DOMAIN balances
              /\ Cardinality({b \in DOMAIN balances : ComesBefore(b, page.items[i])})
                     = lo + i - 1
        /\ \A i, j \in 1..Len(page.items) :
              i < j => ComesBefore(page.items[i], page.items[j])

PositionIn(order, a) == CHOOSE i \in 1..Len(order) : order[i] = a

\* the whole snapshot a call would return with the token projection tk
WholeSnapshot(tk) == GetAgentLeaderboard(tk, balances, balanceLast, 0, Cardinality(Addr)).items

\* the step changes the known rate of t to another known rate
RateScaled(t) ==
    /\ t \in DOMAIN tokens
    /\ tokens[t].RateTime # 0
    /\ tokens'[t].Rate # tokens[t].Rate
    /\ tokens[t].Rate > 0
    /\ tokens'[t].Rate > 0

Supported(t) == t \in DOMAIN tokens /\ tokens[t].MinPromptPrice # 0

\* the registry's token events for t in the blocks 1..upTo, in chain order
TokenEventsUpTo(t, upTo) ==
    SelectSeq(EventsInRange(chain, 1, upTo),
              LAMBDA e : /\ e.FromAddress = Registry
                         /\ e.Type \in {"TokenAdded", "TokenRemoved"}
                         /\ e.Token = t)

LastOnChainIsAdded(t, upTo) ==
    LET evs == TokenEventsUpTo(t, upTo)
    IN  evs # << >> /\ evs[Len(evs)].Type = "TokenAdded"

\* the TokenIndexer has applied every message of every chunk up to its
\* watermark, and none of the chunks passed before it subscribed
ChunksApplied ==
    /\ tokenPc = "run"
    /\ watcherPc = "poll"
    /\ tokenCh = << >>
    /\ tokenLast = watcherLast
    /\ \A t \in {Token1} :
          \A i \in 1..Len(TokenEventsUpTo(t, tokenLast)) :
              TokenEventsUpTo(t, tokenLast)[i] \in tokenApplied

\* C30: once the TokenIndexer has applied all messages of a chunk, a token is
\* supported exactly when the last event the registry emitted for it, in
\* chain order up to the chunk's toBlock, is a TokenAdded; also when a
\* TokenAdded and a TokenRemoved of the token are in the same chunk.
C30_TokenSetFollowsChain ==
    ChunksApplied =>
        \A t \in {Token1} : Supported(t) <=> LastOnChainIsAdded(t, tokenLast)

\* the same while no chunk held more than one event of the token
OneTokenEventPerChunk ==
    (ChunksApplied /\ \A b \in 1..Len(chain) : Len(chain[b]) <= IndexChunkSize)
        => \A t \in {Token1} : Supported(t) <=> LastOnChainIsAdded(t, tokenLast)

(***************************************************************************)
(* Reprocessing (SpecToken): the projection a run ends in against the      *)
(* projection of the log applied in chain order.                           *)
(***************************************************************************)
\* the token set without rates and timestamps
TokenSetOf(tk) ==
    [t \in DOMAIN tk |-> [MinPromptPrice |-> tk[t].MinPromptPrice,
                          MinInitialBalance |-> tk[t].MinInitialBalance]]

\* the run that applies the whole log in chain order, one event at a time
ReplayInChainOrder == ApplyTokenEvents(<< >>, EventsInRange(chain, 1, Len(chain)))

\* the whole log consumed, no message in flight, no price round in progress
Quiescent ==
    /\ ChunksApplied
    /\ tokenLast = Len(chain)
    /\ pricePc = "wait"

\* C27: a run that has consumed the whole log and is quiescent holds the
\* token set that applying the log in chain order gives, rates and
\* timestamps left out, however the log was cut into chunks, the messages of
\* a chunk were delivered and the price rounds fell.
C27_ReprocessingDeterministic ==
    Quiescent => TokenSetOf(tokens) = TokenSetOf(ReplayInChainOrder)

\* the same for the runs in which no price round has stored
NoRoundSameTokenSet ==
    (Quiescent /\ priceStored = << >>) => TokenSetOf(tokens) = TokenSetOf(ReplayInChainOrder)

\* a quiescent run that does hold the token set of the log in chain order,
\* after an addition and a removal
ReplayReached ==
    /\ Quiescent
    /\ Len(TokenEventsUpTo(Token1, Len(chain))) = 2
    /\ TokenSetOf(tokens) = TokenSetOf(ReplayInChainOrder)

(***************************************************************************)
(* Properties of GetAgentsByCreator (SpecQuery).                           *)
(***************************************************************************)
QueryTotal == Len(querySeen.agents)

\* the page start .. min(start + limit, total) - 1 of the creator's agents
QueryPage ==
    LET last == MinOf(queryCall.start + queryCall.limit, QueryTotal)
    IN  [idx \in 1..(last - queryCall.start) |->
            querySeen.infos[querySeen.agents[queryCall.start + idx]]]

\* C20: GetAgentsByCreator(creator, start, limit), total being the number
\* of agents of creator: not found when start >= total; otherwise found with
\* the agents at positions start .. min(start + limit, total) - 1 in
\* registration order, AgentCount = total and LastBlock = the watermark; a
\* found page of zero items (limit = 0) is not "not found".
C20_PageOfCreatorAgents ==
    queryCall.made =>
        /\ ~queryResult.panic
        /\ queryCall.start >= QueryTotal => ~queryResult.found
        /\ queryCall.start < QueryTotal =>
              /\ queryResult.found
              /\ queryResult.Agents = QueryPage
              /\ queryResult.AgentCount = QueryTotal
              /\ queryResult.LastBlock = querySeen.last

\* the same for calls whose start + limit is within the unsigned range
PageWithinRange ==
    (queryCall.made /\ queryCall.start + queryCall.limit <= MaxUint) =>
        /\ ~queryResult.panic
        /\ queryCall.start >= QueryTotal => ~queryResult.found
        /\ queryCall.start < QueryTotal =>
              /\ queryResult.found
              /\ queryResult.Agents = QueryPage
              /\ queryResult.AgentCount = QueryTotal
              /\ queryResult.LastBlock = querySeen.last

(***************************************************************************)
(* Properties of the token projection next to the price task (SpecToken).  *)
(***************************************************************************)
LastEventIs(t, type) == t \in DOMAIN lastTokenEvent /\ lastTokenEvent[t] = type

\* the values the registry announces in TokenAdded
AddedValues(t) == [MinPromptPrice |-> TokenAddedEvent(Registry, t).MinPromptPrice,
                   MinInitialBalance |-> TokenAddedEvent(Registry, t).MinInitialBalance]

RateFoundIffStored ==
    \A t \in {Token1} :
        /\ GetTokenRate(tokens, t).ok <=> (t \in DOMAIN tokens /\ tokens[t].RateTime # 0)
        /\ GetTokenRate(tokens, t).ok =>
              t \in rateStored /\ GetTokenRate(tokens, t).value \in Rates

AddedAndNeverRefreshed(t) == LastEventIs(t, "TokenAdded") /\ t \notin rateStored

\* C15: GetTokenRate(t) is found exactly when t is in the token set with a
\* rate stored by a successful price refresh (rateTime not zero); a token
\* added by TokenAdded and not yet refreshed has no rate, and its minimum
\* prompt price and minimum initial balance are found with the values of
\* the TokenAdded event.
C15_RateFoundOnlyAfterRefresh ==
    /\ RateFoundIffStored
    /\ \A t \in {Token1} :
          AddedAndNeverRefreshed(t) =>
              /\ ~GetTokenRate(tokens, t).ok
              /\ GetTokenMinPromptPrice(tokens, t) =
                    [ok |-> TRUE, value |-> AddedValues(t).MinPromptPrice]
              /\ GetTokenMinInitialBalance(tokens, t) =
                    [ok |-> TRUE, value |-> AddedValues(t).MinInitialBalance]

\* C16: after a registry TokenRemoved(t) applied to a token whose rate was
\* stored, and until the registry adds the token again, the token is
\* unsupported (minimum prompt price 0) and GetTokenRate(t) is still found.
C16_RemovedTokenKeepsRate ==
    \A t \in removedRated :
        /\ GetTokenMinPromptPrice(tokens, t) = [ok |-> TRUE, value |-> 0]
        /\ GetTokenRate(tokens, t).ok
        /\ GetTokenRate(tokens, t).value \in Rates

\* how the task holds dbMu at each point of a round
PriceLockDiscipline ==
    /\ pricePc = "snap" => dbMu = "r-price"
    /\ pricePc = "rates" => dbMu = "free"
    /\ pricePc = "store" => dbMu = "w-price"
    /\ pricePc = "wait" => dbMu = "free"

\* the store of a round gives a token whose GetRate failed the rate and the
\* rateTime it had when the round read the token set
FailedRateKept ==
    (pricePc = "store" /\ pricePc' = "wait") =>
        \A t \in priceFailed :
            /\ tokens'[t].Rate = priceRead[t].Rate
            /\ tokens'[t].RateTime = priceRead[t].RateTime

\* a round has stored while the GetRate of a token with a rate failed
C18_Witness ==
    /\ pricePc = "wait"
    /\ \E t \in priceFailed :
          /\ t \in DOMAIN priceStored
          /\ priceRead[t].RateTime # 0
          /\ tokens[t].RateTime = priceRead[t].RateTime

\* C18: a round of the price task reads the token set under the read lock,
\* fetches every rate with dbMu not held in any mode, and stores under the
\* write lock; a token whose GetRate failed keeps the rate and rateTime it
\* had when the round began.
C18_RefreshOutsideLock ==
    /\ []PriceLockDiscipline
    /\ [][FailedRateKept]_vars

(***************************************************************************)
(* Properties of the usage projection (SpecUsage).                         *)
(***************************************************************************)
PromptIdsOf(latest) == [i \in 1..Len(latest) |-> latest[i].PromptID]
UsageOf(a) == IF a \in DOMAIN usages THEN usages[a] ELSE NewAgentUsage
ConsumedCall == lastCall.op = "consumed"

\* C4: for every agent, BreakAttempts equals the number of
\* StorePromptConsumedData calls made for it (cache hit or miss), and no
\* other call changes it.
C4_BreakAttemptsCountsConsumed ==
    \A a \in Addr : UsageOf(a).BreakAttempts = Len(consumedLog[a])

\* an agent with two recorded attempts, one that hit the cache and a last one that missed
C4_Witness ==
    /\ ConsumedCall
    /\ ~lastCall.hit
    /\ usages[lastCall.addr].BreakAttempts = 2
    /\ \E i \in 1..Len(usages[lastCall.addr].LatestPrompts) :
          usages[lastCall.addr].LatestPrompts[i].TweetID # 0

\* the appended entry carries the values of the paid event
PaidValuesRecorded ==
    /\ lastCall.entry.TweetID = lastCall.paid.TweetID
    /\ lastCall.entry.Prompt = lastCall.paid.Prompt

C6_DrainedIsMonotone ==
    [][\A a \in Addr : UsageOf(a).IsDrained
           => (a \in DOMAIN usages' /\ usages'[a].IsDrained)]_vars

\* a drained agent after a later failed attempt (drainedTo = the agent itself)
C6_Witness ==
    /\ ConsumedCall
    /\ lastCall.drainedTo = lastCall.addr
    /\ lastCall.pre.IsDrained
    /\ usages[lastCall.addr].IsDrained

\* C7: latestPrompts holds at most maxPrompts entries, and they are the
\* last min(n, maxPrompts) consumed prompts in arrival order.
C7_LatestPromptsAreLastK ==
    \A a \in Addr :
        LET n   == Len(consumedLog[a])
            k   == MinOf(n, maxPrompts)
            ids == PromptIdsOf(UsageOf(a).LatestPrompts)
        IN  /\ Len(ids) <= maxPrompts
            /\ ids = SubSeq(consumedLog[a], n - k + 1, n)

\* an agent with more consumed prompts than the history holds
C7_Witness ==
    \E a \in Addr :
        /\ Len(consumedLog[a]) > maxPrompts
        /\ Len(usages[a].LatestPrompts) = maxPrompts
        /\ consumedLog[a][1] # consumedLog[a][Len(consumedLog[a])]

\* C8: the appended entry has IsSuccess = (drainedTo # agent); a failed
\* attempt records DrainedTo = 0 and leaves IsDrained unchanged, a successful
\* one records DrainedTo = drainedTo and sets IsDrained.
C8_SuccessAndDrainAddress ==
    ConsumedCall =>
        LET a == lastCall.addr
            e == lastCall.entry
        IN  /\ e.IsSuccess = (lastCall.drainedTo # a)
            /\ e.PromptID = lastCall.promptId
            /\ (maxPrompts > 0 =>
                   usages[a].LatestPrompts[Len(usages[a].LatestPrompts)] = e)
            /\ (lastCall.drainedTo = a =>
                   /\ e.DrainedTo = ZeroAddress
                   /\ usages[a].IsDrained = lastCall.pre.IsDrained)
            /\ (lastCall.drainedTo # a =>
                   /\ e.DrainedTo = lastCall.drainedTo
                   /\ usages[a].IsDrained)

\* a successful drain recorded after a failed attempt of the same agent
C8_Witness ==
    /\ ConsumedCall
    /\ lastCall.drainedTo = Beef
    /\ ~lastCall.pre.IsDrained
    /\ usages[lastCall.addr].IsDrained
    /\ Len(usages[lastCall.addr].LatestPrompts) = 2
    /\ ~usages[lastCall.addr].LatestPrompts[1].IsSuccess
    /\ usages[lastCall.addr].LatestPrompts[1].DrainedTo = ZeroAddress

\* no live cache entry: never paid or already consumed, paid longer ago than
\* the TTL, or no longer held by the cache (evicted or purged)
NoLiveEntry == ~lastCall.paid.paid \/ lastCall.expired \/ ~lastCall.inCache

\* C9: a PromptConsumed without a live cache entry still increments
\* BreakAttempts and appends exactly one entry, with TweetID = 0 and Prompt = "".
C9_MissStillRecorded ==
    (ConsumedCall /\ NoLiveEntry) =>
        LET a    == lastCall.addr
            post == usages[a]
        IN  /\ post.BreakAttempts = lastCall.pre.BreakAttempts + 1
            /\ lastCall.entry.TweetID = 0
            /\ lastCall.entry.Prompt = ""
            /\ lastCall.entry.PromptID = lastCall.promptId
            /\ Len(post.LatestPrompts)
                 = MinOf(Len(lastCall.pre.LatestPrompts) + 1, maxPrompts)
            /\ (maxPrompts > 0 =>
                   post.LatestPrompts[Len(post.LatestPrompts)] = lastCall.entry)

\* a consumption whose payment is still held by the cache but is older than the TTL
C9_Witness ==
    /\ ConsumedCall
    /\ lastCall.paid.paid
    /\ lastCall.expired
    /\ lastCall.inCache
    /\ usages[lastCall.addr].BreakAttempts = 1
    /\ usages[lastCall.addr].LatestPrompts[1].TweetID = 0

(***************************************************************************)
(* Registration and usage                                                  *)
(***************************************************************************)
AnnouncedAttempt(a) ==
    \E e \in SeqToSet(Flatten(chain)) : e.Type = "PromptConsumed" /\ e.FromAddress = a

UsageEntryHasChainEvent ==
    \A a \in DOMAIN usages : IsAgentRegistered(chain, a) \/ AnnouncedAttempt(a)

\* the AgentIndexer has applied every block and knows nothing of the address
UnregisteredUsageReached ==
    /\ agentLast = Len(chain)
    /\ Agent2 \in DOMAIN usages
    /\ Agent2 \notin DOMAIN agentInfos
    /\ usages[Agent2].BreakAttempts = 1

(***************************************************************************)
(* AgentInfo after its creation                                            *)
(***************************************************************************)
\* where address a stands in the creator index
PositionsOf(index, a) ==
    {p \in UNION {{<<c, i>> : i \in 1..Len(index[c])} : c \in DOMAIN index} :
        index[p[1]][p[2]] = a}

InfoKept(a) ==
    /\ a \in DOMAIN agentInfos'
    /\ agentInfos'[a] = agentInfos[a]
    /\ PositionsOf(agentsByCreator', a) = PositionsOf(agentsByCreator, a)

SecondRegistrationApplied ==
    /\ agentPrev.batch # << >>
    /\ agentPrev.batch[1].Agent \in DOMAIN agentPrev.infos

(***************************************************************************)
(* The price refresh next to the event loop                                *)
(***************************************************************************)
\* the step in which a round of updatePricesTask stores
StoreStep == pricePc = "store" /\ pricePc' = "wait"

\* C31: the store of a price refresh changes only rate and rateTime of the
\* tokens present when it commits: a TokenRemoved applied between the round's
\* snapshot and its commit is not undone, and the minimum prompt price and
\* minimum initial balance of a TokenAdded applied in between are kept.
C31_RefreshChangesOnlyRate ==
    [][StoreStep => TokenSetOf(tokens') = TokenSetOf(tokens)]_vars

\* the same for the rounds during which the event loop applied nothing
QuietRoundChangesOnlyRate ==
    [][(StoreStep /\ TokenSetOf(priceSnap) = TokenSetOf(tokens))
          => TokenSetOf(tokens') = TokenSetOf(tokens)]_vars

(***************************************************************************)
(* Readers of the usage projection                                         *)
(***************************************************************************)
\* the prompt ids of the PromptConsumed events applied or being applied
EventIds(a) ==
    consumedLog[a] \o (IF storePc \in {"inc", "peek", "drain", "append", "trim", "store"}
                          /\ storeCall.addr = a
                       THEN <<storeCall.promptId>> ELSE << >>)

\* the last entries of the history after the first k events
HistoryAfter(ids, k) ==
    SubSeq(ids, IF k > maxPrompts THEN k - maxPrompts + 1 ELSE 1, k)

\* what was read is the usage after the first k events (all attempts failed)
SnapshotAfter(snap, ids, k) ==
    /\ snap.BreakAttempts = k
    /\ snap.IsDrained = FALSE
    /\ [i \in 1..Len(snap.LatestPrompts) |-> snap.LatestPrompts[i].PromptID]
          = HistoryAfter(ids, k)

\* C32: what a query handler has read of an agent's usage (LatestPrompts,
\* IsDrained, BreakAttempts) is the usage after some whole number of applied
\* PromptConsumed events, never a state in the middle of a store.
C32_ReadersSeeWholeEvents ==
    (readPc = "done" /\ readSnap.ok) =>
        \E k \in 0..Len(EventIds(Agent1)) : SnapshotAfter(readSnap, EventIds(Agent1), k)

\* the usage in the map is whole whenever the write lock is not held
UnlockedUsageWhole ==
    (usageMu # "w" /\ Agent1 \in DOMAIN usages) =>
        SnapshotAfter(usages[Agent1], consumedLog[Agent1], Len(consumedLog[Agent1]))

\* a handler has read a history longer than maxPrompts
OverlongHistoryRead == readPc = "done" /\ Len(readSnap.LatestPrompts) > maxPrompts

ReadingUsages == readPc = "rlocked"
WritingUsages == storePc \in {"inc", "peek", "drain", "append", "trim", "store", "agent"}
ReadingLast   == getLastPc = "reading"
WritingLast   == storePc = "setLast"

\* C33: every access of the usage database happens under db.mu: no read of
\* usages or lastIndexedBlock (GetAgentUsage, GetAgentExists,
\* GetLastIndexedBlock) overlaps a write to the same field by
\* StorePromptConsumedData, StoreAgent or SetLastIndexedBlock.
C33_AccessesUnderMutex ==
    /\ ~(ReadingUsages /\ WritingUsages)
    /\ ~(ReadingLast /\ WritingLast)

\* the accesses of the map itself are exclusive
UsagesMapExclusive == ~(ReadingUsages /\ WritingUsages)

(***************************************************************************)
(* One consumption for one payment                                         *)
(***************************************************************************)
\* the call consumed a prompt that was consumed before and not paid since
ConsumedAgainUnpaid ==
    /\ ConsumedCall
    /\ ~lastCall.paid.paid
    /\ \E i \in 1..(Len(consumedLog[lastCall.addr]) - 1) :
          consumedLog[lastCall.addr][i] = lastCall.promptId

LatestAfter(a) == IF a \in DOMAIN usages' THEN usages'[a].LatestPrompts ELSE << >>

\* the history of a changes only by one entry appended by a PromptConsumed of a
AppendedByConsumedOnly(a) ==
    LatestAfter(a) # UsageOf(a).LatestPrompts =>
        /\ lastCall'.op = "consumed"
        /\ lastCall'.addr = a
        /\ Len(consumedLog'[a]) = Len(consumedLog[a]) + 1
        /\ LET appended == Append(UsageOf(a).LatestPrompts, lastCall'.entry)
           IN  LatestAfter(a) = IF Len(appended) > maxPrompts
                                THEN SubSeq(appended, 2, Len(appended))
                                ELSE appended

\* C34: a paid prompt is correlated with at most one consumption: a second
\* PromptConsumed of the same (agent, promptId) with no PromptPaid in between
\* misses the cache and is recorded with TweetID = 0 and Prompt = ""; and the
\* latestPrompts of an agent change only by the one entry a PromptConsumed
\* appends (PromptPaid and StoreAgent never append).
C34_OneConsumptionPerPayment ==
    /\ [](ConsumedAgainUnpaid =>
            /\ ~lastCall.hit
            /\ lastCall.entry.TweetID = 0
            /\ lastCall.entry.Prompt = "")
    /\ [][\A a \in Addr : AppendedByConsumedOnly(a)]_vars

\* paid, consumed with the paid values, consumed again without them
C34_Witness ==
    /\ ConsumedAgainUnpaid
    /\ Len(usages[lastCall.addr].LatestPrompts) = 2
    /\ usages[lastCall.addr].LatestPrompts[1].PromptID = lastCall.promptId
    /\ usages[lastCall.addr].LatestPrompts[1].TweetID # 0
    /\ usages[lastCall.addr].LatestPrompts[2].TweetID = 0
    /\ usages[lastCall.addr].BreakAttempts = 2

(***************************************************************************)
(* GetAgentsByCreator over the whole unsigned range                        *)
(***************************************************************************)
\* the number of agents of the page: min(limit, total - start)
PageLength ==
    IF queryCall.limit < QueryTotal - queryCall.start
    THEN queryCall.limit ELSE QueryTotal - queryCall.start

\* C35: for every start < total and every limit of the unsigned range,
\* start + limit beyond the largest value included, GetAgentsByCreator returns
\* exactly min(limit, total - start) agents beginning at position start: the
\* end of the page never wraps below start.
C35_TotalOverUnsignedRange ==
    (queryCall.made /\ queryCall.start < QueryTotal) =>
        /\ ~queryResult.panic
        /\ queryResult.found
        /\ Len(queryResult.Agents) = PageLength
        /\ \A idx \in 1..PageLength :
              queryResult.Agents[idx].Address = querySeen.agents[queryCall.start + idx]

\* a page end beyond the unsigned range always wraps below start
WrappedEndPanics ==
    (queryCall.made /\ queryCall.start < QueryTotal
        /\ queryCall.start + queryCall.limit > MaxUint) => queryResult.panic

====
